---- MODULE Spec2Model ----
(***************************************************************************)
(* A model of the WebAuthn firewall proxy (src/main.go): the credential    *)
(* store, the ceremony session store, the begin/finish handlers, the gated *)
(* handlers and the request-body refill mechanism.                         *)
(*                                                                         *)
(* Every handler is one action: it runs from the arrival of the request to *)
(* the response (or to the forward to the backend).  What the handler did  *)
(* in the request is recorded in the variable `last`.                      *)
(***************************************************************************)
EXTENDS Integers, Sequences, FiniteSets, TLC

VARIABLES
    store,      \* db.WebauthnStore: the set of credential rows
    sessions,   \* sessionStore: ceremony session per browser session and kind
    issued,     \* the ceremony options sent to clients, indexed by challenge
    last,       \* the request handled last: its inputs, external calls, response
    rf,         \* a RequestRefiller exercised on its own (request body + data)
    xr,         \* an ExtendedRequest under a sequence of accessor calls
    fw,         \* a WebauthnFirewall of the library: its proxies and its forward
    gated,      \* a gated request handled step by step beside the other requests
    router,     \* the route table and the last dispatch (router specification)
    jwt         \* a request given to userIDFromJWT and what the call ended with

vars == <<store, sessions, issued, last, rf, xr, fw, gated, router, jwt>>

----------------------------------------------------------------------------
(* Bounds of the model *)

\* the number of ceremonies (fresh challenges) that may be begun
MaxChallenges == 3

\* the number of Read/Refill steps applied to the stand-alone refiller
MaxRefillSteps == 4

----------------------------------------------------------------------------
(* Program constants *)

StatusOK == 200
StatusBadRequest == 400
StatusInternalServerError == 500

----------------------------------------------------------------------------
(* The finite universe the inputs are drawn from *)

Browsers == {"b1"}
Kinds == {"registration", "authentication"}
UserIDs == {1, 2}
Usernames == {"alice", "bob"}
Keys == {"k1", "k2"}
RepoNames == {"r1", "r2"}
SSHKeyIDs == {1, 2}

Range(s) == {s[i] : i \in DOMAIN s}

----------------------------------------------------------------------------
(* protocol.AuthenticationExtensions: a Go map, which may be nil *)

NilExt == [isNil |-> TRUE, kv |-> {}]

MakeExt == [isNil |-> FALSE, kv |-> {}]

\* extensions[key] = value on a non-nil map
SetExt(ext, key, value) ==
    [isNil |-> FALSE,
     kv |-> {p \in ext.kv : p[1] # key} \cup {<<key, value>>}]

\* reflect.DeepEqual on two maps: both nil or both non-nil, the same length,
\* and every key of the one bound to an equal value in the other
DeepEqual_KeyOnly(a, b) ==
    \A p \in a.kv : p \in b.kv

DeepEqual(a, b) ==
    /\ a.isNil = b.isNil
    /\ Cardinality(a.kv) = Cardinality(b.kv)
    /\ \A p \in a.kv : p \in b.kv

----------------------------------------------------------------------------
(* The transaction strings of the handlers (fmt.Sprintf) *)

DisableText(name) == "Confirm disable webauthn for " \o name

RepoDeleteText(username, reponame) ==
    "Confirm repository delete: " \o username \o "/" \o reponame

AddSSHKeyText(title) == "Add SSH key named: " \o title

DeleteSSHKeyText(name) == "Delete SSH key named: " \o name

TxExt(text) == SetExt(MakeExt, "txAuthSimple", text)

----------------------------------------------------------------------------
(* http.Request: the body stream, the parsed form (cached), the route      *)
(* variables and the cookies (the browser session)                         *)

\* a request body is a sequence of form fields <<name, value>>
NoForm == [parsed |-> FALSE, vals |-> <<>>]

NewRequest(browser, body, routeVars) ==
    [Body |-> body, Form |-> NoForm, Vars |-> routeVars, Cookie |-> browser]

\* ioutil.ReadAll(r.Body): everything left in the stream, which is then empty
ReadAll(r) == [data |-> r.Body, request |-> [r EXCEPT !.Body = <<>>]]

\* url.ParseQuery on the body: each name bound to its values in order
ParseQuery(body) ==
    [k \in {p[1] : p \in Range(body)} |->
        LET idx == {i \in DOMAIN body : body[i][1] = k}
            first == CHOOSE i \in idx : \A j \in idx : i <= j
        IN  <<body[first][2]>>]

\* r.ParseMultipartForm as r.FormValue calls it: the body is read and parsed
\* only while r.Form is nil
ParseForm(r) ==
    IF r.Form.parsed THEN r
    ELSE [r EXCEPT !.Form = [parsed |-> TRUE, vals |-> ParseQuery(r.Body)],
                   !.Body = <<>>]

\* r.FormValue(key) on a request whose form is parsed: the first value, or ""
FormValue(r, key) ==
    IF r.Form.parsed /\ key \in DOMAIN r.Form.vals THEN r.Form.vals[key][1] ELSE ""

\* mux.Vars(r)[key]
MuxVar(r, key) == IF key \in DOMAIN r.Vars THEN r.Vars[key] ELSE ""

\* strconv.ParseInt(s, 10, 64) on the decimal strings of the model
ParseInt(s) ==
    IF \E n \in 0..9 : ToString(n) = s
    THEN [err |-> FALSE, val |-> CHOOSE n \in 0..9 : ToString(n) = s]
    ELSE [err |-> TRUE, val |-> 0]

----------------------------------------------------------------------------
(* RequestRefiller *)

\* a constructor that leaves the body as its own read left it
NewRequestRefiller_NoRefill(r, readErr) ==
    IF readErr
    THEN [err |-> TRUE, refill |-> [data |-> <<>>], request |-> r]
    ELSE LET rd == ReadAll(r)
         IN  [err |-> FALSE, refill |-> [data |-> rd.data], request |-> rd.request]

\* NewRequestRefiller: read the body to the end, keep the bytes, refill
NewRequestRefiller(r, readErr) ==
    IF readErr
    THEN [err |-> TRUE, refill |-> [data |-> <<>>], request |-> r]
    ELSE LET rd == ReadAll(r)
         IN  [err |-> FALSE,
              refill |-> [data |-> rd.data],
              request |-> [rd.request EXCEPT !.Body = rd.data]]

\* a Refill that forgets to reload the body
Refill_Noop(refill, r) == r

\* (rf *RequestRefiller) Refill(): the body is a fresh reader over rf.data
Refill(refill, r) == [r EXCEPT !.Body = refill.data]

\* a reader taking n bytes from the body stream
ReadN(r, n) ==
    LET k == IF n <= Len(r.Body) THEN n ELSE Len(r.Body)
    IN  [data |-> SubSeq(r.Body, 1, k),
         request |-> [r EXCEPT !.Body = SubSeq(r.Body, k + 1, Len(r.Body))]]

----------------------------------------------------------------------------
(* db.WebauthnStore: rows <<user id, username, credential key>> *)

\* no query was made
NoQuery == [by |-> "none", name |-> "", id |-> 0]

QueryByUsername(name) == [by |-> "name", name |-> name, id |-> 0]
QueryByUserID(id) == [by |-> "id", name |-> "", id |-> id]

Matches(row, query) ==
    IF query.by = "name" THEN row.name = query.name ELSE row.id = query.id

IsUserEnabled(st, query) == \E row \in st : Matches(row, query)

NewWebauthnUser(id, name, keys) == [id |-> id, name |-> name, keys |-> keys]

\* the first matching row (lowest id) names the user; the user's credentials
\* are the keys of the rows with that id and name
GetWebauthnUser(st, query) ==
    LET rows == {row \in st : Matches(row, query)}
    IN  IF rows = {}
        THEN [err |-> TRUE, user |-> NewWebauthnUser(0, "", {})]
        ELSE LET r0 == CHOOSE row \in rows : \A o \in rows : row.id <= o.id
             IN  [err |-> FALSE,
                  user |-> NewWebauthnUser(r0.id, r0.name,
                              {x.key : x \in {y \in rows :
                                  y.id = r0.id /\ y.name = r0.name}})]

Create(st, wuser, key) ==
    st \cup {[id |-> wuser.id, name |-> wuser.name, key |-> key]}

Delete(st, name) == {row \in st : row.name # name}

----------------------------------------------------------------------------
(* session.Store: one ceremony session per browser session and kind.       *)
(* A session is read once: GetWebauthnSession removes what it returns.     *)

NoSessionData ==
    [present |-> FALSE, challenge |-> 0, userID |-> 0, extensions |-> NilExt]

SaveWebauthnSession(ss, kind, sessionData, browser) ==
    [ss EXCEPT ![browser][kind] = sessionData]

GetWebauthnSession(ss, kind, browser) ==
    IF ss[browser][kind].present
    THEN [err |-> FALSE,
          sessionData |-> ss[browser][kind],
          sessions |-> [ss EXCEPT ![browser][kind] = NoSessionData]]
    ELSE [err |-> TRUE, sessionData |-> NoSessionData, sessions |-> ss]

----------------------------------------------------------------------------
(* The blobs a client submits: an attestation ("credentials") and an       *)
(* assertion, as the strings the form carries                              *)

\* the extension maps a client may echo in an assertion, by name
EchoExts ==
    [nil    |-> NilExt,
     empty  |-> MakeExt,
     r1     |-> TxExt(RepoDeleteText("alice", "r1")),
     r2     |-> TxExt(RepoDeleteText("alice", "r2")),
     r1x    |-> SetExt(TxExt(RepoDeleteText("alice", "r1")), "extra", "x"),
     addkey |-> TxExt(AddSSHKeyText("work")),
     delkey |-> TxExt(DeleteSSHKeyText("work")),
     dis1   |-> TxExt(DisableText("alice")),
     dis2   |-> TxExt(DisableText("bob"))]

Challenges == 1..MaxChallenges

CredentialBlob(challenge, key) ==
    "cred:" \o ToString(challenge) \o ":" \o key

AssertionBlob(challenge, key, e) ==
    "assn:" \o ToString(challenge) \o ":" \o key \o ":" \o e

NoParse == [ok |-> FALSE, challenge |-> 0, key |-> "", extensions |-> NilExt]

\* the well-formed blobs and what they decode to
CredentialTable ==
    [blob \in {CredentialBlob(t[1], t[2]) : t \in Challenges \X Keys} |->
        LET t == CHOOSE x \in Challenges \X Keys : CredentialBlob(x[1], x[2]) = blob
        IN  [ok |-> TRUE, challenge |-> t[1], key |-> t[2], extensions |-> NilExt]]

AssertionTable ==
    [blob \in {AssertionBlob(t[1], t[2], t[3]) :
                  t \in Challenges \X Keys \X DOMAIN EchoExts} |->
        LET t == CHOOSE x \in Challenges \X Keys \X DOMAIN EchoExts :
                    AssertionBlob(x[1], x[2], x[3]) = blob
        IN  [ok |-> TRUE, challenge |-> t[1], key |-> t[2],
             extensions |-> EchoExts[t[3]]]]

\* protocol.ParseCredentialCreationResponseBody
ParseCredential(blob) ==
    IF blob \in DOMAIN CredentialTable THEN CredentialTable[blob] ELSE NoParse

\* protocol.ParseCredentialRequestResponseBody
ParseAssertion(blob) ==
    IF blob \in DOMAIN AssertionTable THEN AssertionTable[blob] ELSE NoParse

----------------------------------------------------------------------------
(* webauthn.WebAuthn: the ceremony primitives *)

NoOptions == [challenge |-> 0, extensions |-> NilExt]

BeginRegistration(wuser, challenge) ==
    [options |-> [challenge |-> challenge, extensions |-> NilExt],
     sessionData |-> [present |-> TRUE, challenge |-> challenge,
                      userID |-> wuser.id, extensions |-> NilExt]]

FinishRegistration(wuser, sessionData, credentials) ==
    LET c == ParseCredential(credentials)
    IN  IF /\ c.ok
           /\ c.challenge = sessionData.challenge
           /\ sessionData.userID = wuser.id
        THEN [err |-> FALSE, key |-> c.key]
        ELSE [err |-> TRUE, key |-> ""]

BeginLogin(wuser, extensions, challenge) ==
    [options |-> [challenge |-> challenge, extensions |-> extensions],
     sessionData |-> [present |-> TRUE, challenge |-> challenge,
                      userID |-> wuser.id, extensions |-> extensions]]

\* the extension maps an extensions verifier may be called on
ExtensionMaps == {EchoExts[e] : e \in DOMAIN EchoExts}

\* FinishLogin: the assertion answers the stored challenge, is signed by a
\* credential of the user, and the extensions verifier (a function of the
\* session's extensions and the client data's) accepts what the client data
\* echoes.  TRUE is an error.
FinishLogin(wuser, sessionData, verifier, assertion) ==
    LET a == ParseAssertion(assertion)
    IN  ~ ( /\ a.ok
            /\ a.challenge = sessionData.challenge
            /\ sessionData.userID = wuser.id
            /\ a.key \in wuser.keys
            /\ verifier[<<sessionData.extensions, a.extensions>>] )

----------------------------------------------------------------------------
(* What a handler did in a request *)

\* the record of a request at its arrival; who is the user the backend says
\* the request's cookies belong to (0: none).  status 0: no status written by
\* the firewall; loaded: the challenge of the ceremony session the request
\* loaded (0: none); checked: how checkWebauthnAssertion ended ("none": not
\* called, "ok", or the step that failed)
Start(handler, browser, body, who) ==
    [handler |-> handler, browser |-> browser, body |-> body, who |-> who,
     fault |-> "none",
     status |-> 0, options |-> NoOptions, written |-> "",
     forwarded |-> FALSE, fwdBody |-> <<>>,
     calls |-> {}, loaded |-> 0, checked |-> "none",
     expected |-> NilExt, assertion |-> "",
     tested |-> NoQuery, verified |-> NoQuery]

\* the fault the request meets in its environment
Fault(readErr, dbErr) ==
    IF readErr THEN "read" ELSE IF dbErr THEN "db" ELSE "none"

\* a ceremony has been finished with success
Finished(is, challenge) ==
    [is EXCEPT ![challenge].finished = @ + 1]

\* http.Error(w, text, code)
Error(l, code) == [l EXCEPT !.status = code, !.written = "error"]

\* the result of a handler: the response and the stores after it
Outcome(l, st, ss, is) ==
    [last |-> l, store |-> st, sessions |-> ss, issued |-> is]

\* proxy.ServeHTTP(w, r): the embedded reverse proxy sends what is left in
\* the request's body stream to the backend, which answers
ServeHTTP(l, r) ==
    [l EXCEPT !.forwarded = TRUE, !.fwdBody = r.Body,
              !.calls = @ \cup {"backend"}]

\* userIDFromSession(r): the backend's answer for the request's cookies
userIDFromSession(who) == [err |-> who = 0, userID |-> who]

\* sshKeyFromSSHKeyID(id): the backend's SSH key with that id
SSHKeyNames == <<"work", "home">>

sshKeyFromSSHKeyID(sshKeyID) ==
    IF sshKeyID \in DOMAIN SSHKeyNames
    THEN [err |-> FALSE, Name |-> SSHKeyNames[sshKeyID]]
    ELSE [err |-> TRUE, Name |-> ""]

----------------------------------------------------------------------------
(* checkWebauthnAssertion *)

\* a check whose extensions verifier accepts whatever the client echoes
checkWebauthnAssertion_NoVerify(browser, query, expectedExtensions, assertion, dbErr) ==
    LET got == GetWebauthnUser(store, query)
        ld == GetWebauthnSession(sessions, "authentication", browser)
        noVerify == [x \in ExtensionMaps \X ExtensionMaps |-> TRUE]
        bad == FinishLogin(got.user, ld.sessionData, noVerify, assertion)
    IN  IF dbErr \/ got.err
        THEN [err |-> "user", sessions |-> sessions, loaded |-> 0,
              query |-> query,
              calls |-> {"GetWebauthnUser"}]
        ELSE IF ld.err
        THEN [err |-> "session", sessions |-> ld.sessions, loaded |-> 0,
              query |-> query,
              calls |-> {"GetWebauthnUser", "GetWebauthnSession"}]
        ELSE [err |-> IF bad THEN "verify" ELSE "",
              sessions |-> ld.sessions,
              loaded |-> ld.sessionData.challenge,
              query |-> query,
              calls |-> {"GetWebauthnUser", "GetWebauthnSession", "FinishLogin"}]

\* a check that reads the session and leaves it in the store
checkWebauthnAssertion_Peek(browser, query, expectedExtensions, assertion, dbErr) ==
    LET got == GetWebauthnUser(store, query)
        ld == GetWebauthnSession(sessions, "authentication", browser)
        verifyTxAuthSimple ==
            [x \in ExtensionMaps \X ExtensionMaps |->
                DeepEqual(expectedExtensions, x[2])]
        bad == FinishLogin(got.user, ld.sessionData, verifyTxAuthSimple, assertion)
    IN  IF dbErr \/ got.err
        THEN [err |-> "user", sessions |-> sessions, loaded |-> 0,
              query |-> query,
              calls |-> {"GetWebauthnUser"}]
        ELSE IF ld.err
        THEN [err |-> "session", sessions |-> sessions, loaded |-> 0,
              query |-> query,
              calls |-> {"GetWebauthnUser", "GetWebauthnSession"}]
        ELSE [err |-> IF bad THEN "verify" ELSE "",
              sessions |-> sessions,
              loaded |-> ld.sessionData.challenge,
              query |-> query,
              calls |-> {"GetWebauthnUser", "GetWebauthnSession", "FinishLogin"}]

\* a check that puts the session back when the verification fails
checkWebauthnAssertion_KeepOnFail(browser, query, expectedExtensions, assertion, dbErr) ==
    LET got == GetWebauthnUser(store, query)
        ld == GetWebauthnSession(sessions, "authentication", browser)
        verifyTxAuthSimple ==
            [x \in ExtensionMaps \X ExtensionMaps |->
                DeepEqual(expectedExtensions, x[2])]
        bad == FinishLogin(got.user, ld.sessionData, verifyTxAuthSimple, assertion)
    IN  IF dbErr \/ got.err
        THEN [err |-> "user", sessions |-> sessions, loaded |-> 0,
              query |-> query,
              calls |-> {"GetWebauthnUser"}]
        ELSE IF ld.err
        THEN [err |-> "session", sessions |-> ld.sessions, loaded |-> 0,
              query |-> query,
              calls |-> {"GetWebauthnUser", "GetWebauthnSession"}]
        ELSE [err |-> IF bad THEN "verify" ELSE "",
              sessions |-> IF bad THEN sessions ELSE ld.sessions,
              loaded |-> ld.sessionData.challenge,
              query |-> query,
              calls |-> {"GetWebauthnUser", "GetWebauthnSession", "FinishLogin"}]

\* err is "" on success, else the step that failed
checkWebauthnAssertion(browser, query, expectedExtensions, assertion, dbErr) ==
    LET got == GetWebauthnUser(store, query)
        ld == GetWebauthnSession(sessions, "authentication", browser)
        verifyTxAuthSimple ==
            [x \in ExtensionMaps \X ExtensionMaps |->
                DeepEqual(expectedExtensions, x[2])]
        bad == FinishLogin(got.user, ld.sessionData, verifyTxAuthSimple, assertion)
    IN  IF dbErr \/ got.err
        THEN [err |-> "user", sessions |-> sessions, loaded |-> 0,
              query |-> query,
              calls |-> {"GetWebauthnUser"}]
        ELSE IF ld.err
        THEN [err |-> "session", sessions |-> ld.sessions, loaded |-> 0,
              query |-> query,
              calls |-> {"GetWebauthnUser", "GetWebauthnSession"}]
        ELSE [err |-> IF bad THEN "verify" ELSE "",
              sessions |-> ld.sessions,
              loaded |-> ld.sessionData.challenge,
              query |-> query,
              calls |-> {"GetWebauthnUser", "GetWebauthnSession", "FinishLogin"}]

\* the record of a request after a call of checkWebauthnAssertion
Checked(l, chk, expectedExtensions, assertion) ==
    [l EXCEPT !.calls = @ \cup chk.calls,
              !.loaded = chk.loaded,
              !.checked = IF chk.err = "" THEN "ok" ELSE chk.err,
              !.expected = expectedExtensions,
              !.assertion = assertion,
              !.verified = chk.query]

----------------------------------------------------------------------------
(* The handlers of the ceremony routes *)

\* a webauthnIsEnabled that asks whether anyone is enabled
webauthnIsEnabled_AnyUser(browser, user) ==
    LET l0 == Start("webauthnIsEnabled", browser, <<>>, 0)
        isEnabled == store # {}
    IN  Outcome([l0 EXCEPT !.status = StatusOK,
                           !.written = IF isEnabled THEN "enabled:true"
                                       ELSE "enabled:false",
                           !.calls = {"IsUserEnabled"}],
                store, sessions, issued)

webauthnIsEnabled(browser, user) ==
    LET l0 == Start("webauthnIsEnabled", browser, <<>>, 0)
        isEnabled == IsUserEnabled(store, QueryByUsername(user))
    IN  Outcome([l0 EXCEPT !.status = StatusOK,
                           !.written = IF isEnabled THEN "enabled:true"
                                       ELSE "enabled:false",
                           !.calls = {"IsUserEnabled"}],
                store, sessions, issued)

\* a beginRegister that saves its session as an "authentication" session
\* a beginRegister that answers with the options whatever the save returned
beginRegister_IgnoreSaveError(browser, body, saveErr) ==
    LET l0 == [Start("beginRegister", browser, body, 0)
                  EXCEPT !.fault = IF saveErr THEN "save" ELSE "none"]
        r1 == ParseForm(NewRequest(browser, body, <<>>))
        username == FormValue(r1, "username")
        userID == ParseInt(FormValue(r1, "userID"))
        wuser == NewWebauthnUser(userID.val, username, {})
        reg == BeginRegistration(wuser, Len(issued) + 1)
    IN  IF username = "" THEN
            Outcome(Error(l0, StatusInternalServerError), store, sessions, issued)
        ELSE IF userID.err THEN
            Outcome(Error(l0, StatusInternalServerError), store, sessions, issued)
        ELSE
            Outcome([l0 EXCEPT !.status = StatusOK, !.written = "options",
                               !.options = reg.options,
                               !.calls = {"BeginRegistration", "SaveWebauthnSession"}],
                    store,
                    IF saveErr THEN sessions
                    ELSE SaveWebauthnSession(sessions, "registration",
                                             reg.sessionData, browser),
                    Append(issued, [kind |-> "registration", browser |-> browser,
                                    options |-> reg.options, finished |-> 0]))

beginRegister_SaveAsAuthentication(browser, body, saveErr) ==
    LET l0 == [Start("beginRegister", browser, body, 0)
                  EXCEPT !.fault = IF saveErr THEN "save" ELSE "none"]
        r1 == ParseForm(NewRequest(browser, body, <<>>))
        username == FormValue(r1, "username")
        userID == ParseInt(FormValue(r1, "userID"))
        wuser == NewWebauthnUser(userID.val, username, {})
        reg == BeginRegistration(wuser, Len(issued) + 1)
    IN  IF username = "" THEN
            Outcome(Error(l0, StatusInternalServerError), store, sessions, issued)
        ELSE IF userID.err THEN
            Outcome(Error(l0, StatusInternalServerError), store, sessions, issued)
        ELSE IF saveErr THEN
            Outcome(Error([l0 EXCEPT !.calls = {"BeginRegistration", "SaveWebauthnSession"}],
                          StatusInternalServerError),
                    store, sessions, issued)
        ELSE
            Outcome([l0 EXCEPT !.status = StatusOK, !.written = "options",
                               !.options = reg.options,
                               !.calls = {"BeginRegistration", "SaveWebauthnSession"}],
                    store,
                    SaveWebauthnSession(sessions, "authentication", reg.sessionData, browser),
                    Append(issued, [kind |-> "registration", browser |-> browser,
                                    options |-> reg.options, finished |-> 0]))

beginRegister(browser, body, saveErr) ==
    LET l0 == [Start("beginRegister", browser, body, 0)
                  EXCEPT !.fault = IF saveErr THEN "save" ELSE "none"]
        r1 == ParseForm(NewRequest(browser, body, <<>>))
        username == FormValue(r1, "username")
        userID == ParseInt(FormValue(r1, "userID"))
        wuser == NewWebauthnUser(userID.val, username, {})
        reg == BeginRegistration(wuser, Len(issued) + 1)
    IN  IF username = "" THEN
            Outcome(Error(l0, StatusInternalServerError), store, sessions, issued)
        ELSE IF userID.err THEN
            Outcome(Error(l0, StatusInternalServerError), store, sessions, issued)
        ELSE IF saveErr THEN
            Outcome(Error([l0 EXCEPT !.calls = {"BeginRegistration", "SaveWebauthnSession"}],
                          StatusInternalServerError),
                    store, sessions, issued)
        ELSE
            Outcome([l0 EXCEPT !.status = StatusOK, !.written = "options",
                               !.options = reg.options,
                               !.calls = {"BeginRegistration", "SaveWebauthnSession"}],
                    store,
                    SaveWebauthnSession(sessions, "registration", reg.sessionData, browser),
                    Append(issued, [kind |-> "registration", browser |-> browser,
                                    options |-> reg.options, finished |-> 0]))

\* a finishRegister that saves the credential whatever FinishRegistration says
finishRegister_CreateAnyway(browser, body) ==
    LET l0 == Start("finishRegister", browser, body, 0)
        r1 == ParseForm(NewRequest(browser, body, <<>>))
        username == FormValue(r1, "username")
        credentials == FormValue(r1, "credentials")
        userID == ParseInt(FormValue(r1, "userID"))
        wuser == NewWebauthnUser(userID.val, username, {})
        ld == GetWebauthnSession(sessions, "registration", browser)
        c == ParseCredential(credentials)
    IN  IF username = "" \/ credentials = "" THEN
            Outcome(Error(l0, StatusInternalServerError), store, sessions, issued)
        ELSE IF userID.err THEN
            Outcome(Error(l0, StatusInternalServerError), store, sessions, issued)
        ELSE IF ld.err THEN
            Outcome(Error([l0 EXCEPT !.calls = {"GetWebauthnSession"}],
                          StatusBadRequest),
                    store, ld.sessions, issued)
        ELSE
            Outcome([l0 EXCEPT !.status = StatusOK, !.written = "redirectTo",
                               !.loaded = ld.sessionData.challenge,
                               !.calls = {"GetWebauthnSession",
                                          "FinishRegistration", "Create"}],
                    Create(store, wuser, c.key), ld.sessions,
                    Finished(issued, ld.sessionData.challenge))

finishRegister(browser, body) ==
    LET l0 == Start("finishRegister", browser, body, 0)
        r1 == ParseForm(NewRequest(browser, body, <<>>))
        username == FormValue(r1, "username")
        credentials == FormValue(r1, "credentials")
        userID == ParseInt(FormValue(r1, "userID"))
        wuser == NewWebauthnUser(userID.val, username, {})
        ld == GetWebauthnSession(sessions, "registration", browser)
        fin == FinishRegistration(wuser, ld.sessionData, credentials)
    IN  IF username = "" \/ credentials = "" THEN
            Outcome(Error(l0, StatusInternalServerError), store, sessions, issued)
        ELSE IF userID.err THEN
            Outcome(Error(l0, StatusInternalServerError), store, sessions, issued)
        ELSE IF ld.err THEN
            Outcome(Error([l0 EXCEPT !.calls = {"GetWebauthnSession"}],
                          StatusBadRequest),
                    store, ld.sessions, issued)
        ELSE IF fin.err THEN
            Outcome(Error([l0 EXCEPT !.calls = {"GetWebauthnSession",
                                                "FinishRegistration"},
                                     !.loaded = ld.sessionData.challenge],
                          StatusBadRequest),
                    store, ld.sessions, issued)
        ELSE
            Outcome([l0 EXCEPT !.status = StatusOK, !.written = "redirectTo",
                               !.loaded = ld.sessionData.challenge,
                               !.calls = {"GetWebauthnSession",
                                          "FinishRegistration", "Create"}],
                    Create(store, wuser, fin.key), ld.sessions,
                    Finished(issued, ld.sessionData.challenge))

\* a base that goes on past the test of isEnabled
\* a base that keeps a pending session of the browser instead of replacing it
beginAttestation_base_KeepFirst(l0, query, clientExtensions, browser, saveErr) ==
    LET isEnabled == IsUserEnabled(store, query)
        got == GetWebauthnUser(store, query)
        login == BeginLogin(got.user, NilExt, Len(issued) + 1)
        options == [login.options EXCEPT !.extensions = clientExtensions]
        l1 == [l0 EXCEPT !.calls = @ \cup {"IsUserEnabled"}]
    IN  IF ~isEnabled THEN
            Outcome([l1 EXCEPT !.status = StatusOK], store, sessions, issued)
        ELSE IF got.err THEN
            Outcome(Error([l1 EXCEPT !.calls = @ \cup {"GetWebauthnUser"}],
                          StatusBadRequest),
                    store, sessions, issued)
        ELSE IF saveErr THEN
            Outcome(Error([l1 EXCEPT !.calls = @ \cup {"GetWebauthnUser", "BeginLogin",
                                                       "SaveWebauthnSession"}],
                          StatusInternalServerError),
                    store, sessions, issued)
        ELSE
            Outcome([l1 EXCEPT !.status = StatusOK, !.written = "options",
                               !.options = options,
                               !.calls = @ \cup {"GetWebauthnUser", "BeginLogin",
                                                 "SaveWebauthnSession"}],
                    store,
                    IF sessions[browser]["authentication"].present THEN sessions
                    ELSE SaveWebauthnSession(sessions, "authentication",
                                             login.sessionData, browser),
                    Append(issued, [kind |-> "authentication", browser |-> browser,
                                    options |-> options, finished |-> 0]))

beginAttestation_base_NoReturn(l0, query, clientExtensions, browser, saveErr) ==
    LET got == GetWebauthnUser(store, query)
        login == BeginLogin(got.user, NilExt, Len(issued) + 1)
        options == [login.options EXCEPT !.extensions = clientExtensions]
        l1 == [l0 EXCEPT !.calls = @ \cup {"IsUserEnabled"}]
    IN  IF got.err THEN
            Outcome(Error([l1 EXCEPT !.calls = @ \cup {"GetWebauthnUser"}],
                          StatusBadRequest),
                    store, sessions, issued)
        ELSE IF saveErr THEN
            Outcome(Error([l1 EXCEPT !.calls = @ \cup {"GetWebauthnUser", "BeginLogin",
                                                       "SaveWebauthnSession"}],
                          StatusInternalServerError),
                    store, sessions, issued)
        ELSE
            Outcome([l1 EXCEPT !.status = StatusOK, !.written = "options",
                               !.options = options,
                               !.calls = @ \cup {"GetWebauthnUser", "BeginLogin",
                                                 "SaveWebauthnSession"}],
                    store,
                    SaveWebauthnSession(sessions, "authentication",
                                        login.sessionData, browser),
                    Append(issued, [kind |-> "authentication", browser |-> browser,
                                    options |-> options, finished |-> 0]))

\* a base that hands the caller's extensions to BeginLogin
beginAttestation_base_PassExtensions(l0, query, clientExtensions, browser, saveErr) ==
    LET isEnabled == IsUserEnabled(store, query)
        got == GetWebauthnUser(store, query)
        login == BeginLogin(got.user, clientExtensions, Len(issued) + 1)
        options == login.options
        l1 == [l0 EXCEPT !.calls = @ \cup {"IsUserEnabled"}]
    IN  IF ~isEnabled THEN
            Outcome([l1 EXCEPT !.status = StatusOK], store, sessions, issued)
        ELSE IF got.err THEN
            Outcome(Error([l1 EXCEPT !.calls = @ \cup {"GetWebauthnUser"}],
                          StatusBadRequest),
                    store, sessions, issued)
        ELSE IF saveErr THEN
            Outcome(Error([l1 EXCEPT !.calls = @ \cup {"GetWebauthnUser", "BeginLogin",
                                                       "SaveWebauthnSession"}],
                          StatusInternalServerError),
                    store, sessions, issued)
        ELSE
            Outcome([l1 EXCEPT !.status = StatusOK, !.written = "options",
                               !.options = options,
                               !.calls = @ \cup {"GetWebauthnUser", "BeginLogin",
                                                 "SaveWebauthnSession"}],
                    store,
                    SaveWebauthnSession(sessions, "authentication",
                                        login.sessionData, browser),
                    Append(issued, [kind |-> "authentication", browser |-> browser,
                                    options |-> options, finished |-> 0]))

beginAttestation_base(l0, query, clientExtensions, browser, saveErr) ==
    LET isEnabled == IsUserEnabled(store, query)
        got == GetWebauthnUser(store, query)
        \* the extensions handed to BeginLogin are nil
        login == BeginLogin(got.user, NilExt, Len(issued) + 1)
        options == [login.options EXCEPT !.extensions = clientExtensions]
        l1 == [l0 EXCEPT !.calls = @ \cup {"IsUserEnabled"}]
    IN  IF ~isEnabled THEN
            Outcome([l1 EXCEPT !.status = StatusOK], store, sessions, issued)
        ELSE IF got.err THEN
            Outcome(Error([l1 EXCEPT !.calls = @ \cup {"GetWebauthnUser"}],
                          StatusBadRequest),
                    store, sessions, issued)
        ELSE IF saveErr THEN
            Outcome(Error([l1 EXCEPT !.calls = @ \cup {"GetWebauthnUser", "BeginLogin",
                                                       "SaveWebauthnSession"}],
                          StatusInternalServerError),
                    store, sessions, issued)
        ELSE
            Outcome([l1 EXCEPT !.status = StatusOK, !.written = "options",
                               !.options = options,
                               !.calls = @ \cup {"GetWebauthnUser", "BeginLogin",
                                                 "SaveWebauthnSession"}],
                    store,
                    SaveWebauthnSession(sessions, "authentication",
                                        login.sessionData, browser),
                    Append(issued, [kind |-> "authentication", browser |-> browser,
                                    options |-> options, finished |-> 0]))

beginAttestation(browser, body, who, saveErr) ==
    LET l0 == [Start("beginAttestation", browser, body, who)
                  EXCEPT !.fault = IF saveErr THEN "save" ELSE "none"]
        uid == userIDFromSession(who)
        l1 == [l0 EXCEPT !.calls = {"session2user"}]
        r1 == ParseForm(NewRequest(browser, body, <<>>))
        authenticationText == FormValue(r1, "auth_text")
        extensions == SetExt(MakeExt, "txAuthSimple", authenticationText)
    IN  IF uid.err THEN
            Outcome(Error(l1, StatusInternalServerError), store, sessions, issued)
        ELSE IF authenticationText = "" THEN
            Outcome(Error(l1, StatusInternalServerError), store, sessions, issued)
        ELSE beginAttestation_base(l1, QueryByUserID(uid.userID), extensions, browser,
                                   saveErr)

beginLogin(browser, body, saveErr) ==
    LET l0 == [Start("beginLogin", browser, body, 0)
                  EXCEPT !.fault = IF saveErr THEN "save" ELSE "none"]
        r1 == ParseForm(NewRequest(browser, body, <<>>))
        username == FormValue(r1, "user_name")
    IN  IF username = "" THEN
            Outcome(Error(l0, StatusInternalServerError), store, sessions, issued)
        ELSE beginAttestation_base(l0, QueryByUsername(username), NilExt, browser, saveErr)

----------------------------------------------------------------------------
(* The gated handlers.  readErr: reading the request body fails;           *)
(* dbErr: the credential store fails inside checkWebauthnAssertion.        *)

finishLogin(browser, body, readErr, dbErr) ==
    LET l0 == [Start("finishLogin", browser, body, 0)
                  EXCEPT !.fault = Fault(readErr, dbErr)]
        nr == NewRequestRefiller(NewRequest(browser, body, <<>>), readErr)
        r1 == ParseForm(nr.request)
        username == FormValue(r1, "user_name")
        assertion == FormValue(r1, "assertion")
        query == QueryByUsername(username)
        isEnabled == IsUserEnabled(store, query)
        l1 == [l0 EXCEPT !.calls = {"IsUserEnabled"}, !.tested = query]
        \* there are no extensions to verify
        chk == checkWebauthnAssertion(browser, query, NilExt, assertion, dbErr)
        l2 == Checked(l1, chk, NilExt, assertion)
        r2 == Refill(nr.refill, r1)
    IN  IF nr.err THEN
            Outcome(Error(l0, StatusInternalServerError), store, sessions, issued)
        ELSE IF username = "" \/ assertion = "" THEN
            Outcome(Error(l0, StatusInternalServerError), store, sessions, issued)
        ELSE IF isEnabled /\ chk.err # "" THEN
            Outcome(Error(l2, StatusBadRequest), store, chk.sessions, issued)
        ELSE IF isEnabled THEN
            Outcome(ServeHTTP(l2, r2), store, chk.sessions,
                    Finished(issued, chk.loaded))
        ELSE
            Outcome(ServeHTTP(l1, r2), store, sessions, issued)

disableWebauthn(browser, body, who, dbErr) ==
    LET l0 == [Start("disableWebauthn", browser, body, who)
                  EXCEPT !.fault = Fault(FALSE, dbErr)]
        uid == userIDFromSession(who)
        l1 == [l0 EXCEPT !.calls = {"session2user"}]
        r1 == ParseForm(NewRequest(browser, body, <<>>))
        assertion == FormValue(r1, "assertion")
        query == QueryByUserID(uid.userID)
        got == GetWebauthnUser(store, query)
        l2 == [l1 EXCEPT !.calls = @ \cup {"GetWebauthnUser"}]
        extensions == SetExt(MakeExt, "txAuthSimple", DisableText(got.user.name))
        chk == checkWebauthnAssertion(browser, query, extensions, assertion, dbErr)
        l3 == Checked(l2, chk, extensions, assertion)
    IN  IF uid.err THEN
            Outcome(Error(l1, StatusInternalServerError), store, sessions, issued)
        ELSE IF assertion = "" THEN
            Outcome(Error(l1, StatusInternalServerError), store, sessions, issued)
        ELSE IF got.err THEN
            Outcome(Error(l2, StatusBadRequest), store, sessions, issued)
        ELSE IF chk.err # "" THEN
            Outcome(Error(l3, StatusBadRequest), store, chk.sessions, issued)
        ELSE
            Outcome([l3 EXCEPT !.status = StatusOK, !.written = "redirectTo",
                               !.calls = @ \cup {"Delete"}],
                    Delete(store, got.user.name), chk.sessions,
                    Finished(issued, chk.loaded))

\* a helper that goes on to the forward after a failed check
deleteRepositoryHelper_ForwardAnyway(l0, r, who, dbErr) ==
    LET uid == userIDFromSession(who)
        l1 == [l0 EXCEPT !.handler = "deleteRepositoryHelper",
                         !.calls = @ \cup {"session2user"}]
        query == QueryByUserID(uid.userID)
        isEnabled == IsUserEnabled(store, query)
        l2 == [l1 EXCEPT !.calls = @ \cup {"IsUserEnabled"}, !.tested = query]
        r1 == ParseForm(r)
        assertion == FormValue(r1, "assertion")
        extensions == SetExt(MakeExt, "txAuthSimple",
                             RepoDeleteText(MuxVar(r1, "username"),
                                            MuxVar(r1, "reponame")))
        chk == checkWebauthnAssertion(r.Cookie, query, extensions, assertion, dbErr)
        l3 == Checked(l2, chk, extensions, assertion)
    IN  IF uid.err THEN
            Outcome(Error(l1, StatusInternalServerError), store, sessions, issued)
        ELSE IF ~isEnabled THEN
            Outcome(ServeHTTP(l2, r), store, sessions, issued)
        ELSE IF assertion = "" THEN
            Outcome(Error(l2, StatusInternalServerError), store, sessions, issued)
        ELSE
            Outcome(ServeHTTP(l3, r1), store, chk.sessions,
                    IF chk.err = "" THEN Finished(issued, chk.loaded) ELSE issued)

\* l0 and r are the record and the request as the caller hands them over
deleteRepositoryHelper(l0, r, who, dbErr) ==
    LET uid == userIDFromSession(who)
        l1 == [l0 EXCEPT !.handler = "deleteRepositoryHelper",
                         !.calls = @ \cup {"session2user"}]
        query == QueryByUserID(uid.userID)
        isEnabled == IsUserEnabled(store, query)
        l2 == [l1 EXCEPT !.calls = @ \cup {"IsUserEnabled"}, !.tested = query]
        r1 == ParseForm(r)
        assertion == FormValue(r1, "assertion")
        username == MuxVar(r1, "username")
        reponame == MuxVar(r1, "reponame")
        extensions == SetExt(MakeExt, "txAuthSimple",
                             RepoDeleteText(username, reponame))
        chk == checkWebauthnAssertion(r.Cookie, query, extensions, assertion, dbErr)
        l3 == Checked(l2, chk, extensions, assertion)
    IN  IF uid.err THEN
            Outcome(Error(l1, StatusInternalServerError), store, sessions, issued)
        ELSE IF ~isEnabled THEN
            Outcome(ServeHTTP(l2, r), store, sessions, issued)
        ELSE IF assertion = "" THEN
            Outcome(Error(l2, StatusInternalServerError), store, sessions, issued)
        ELSE IF chk.err # "" THEN
            Outcome(Error(l3, StatusBadRequest), store, chk.sessions, issued)
        ELSE
            Outcome(ServeHTTP(l3, r1), store, chk.sessions,
                    Finished(issued, chk.loaded))

\* proxy.proxyRequest(w, r)
proxyRequest(l0, r) == Outcome(ServeHTTP(l0, r), store, sessions, issued)

\* a dispatch that hands every action to the helper
repoSettings_AllToHelper(browser, body, routeVars, who, readErr, dbErr) ==
    LET l0 == [Start("repoSettings", browser, body, who)
                  EXCEPT !.fault = Fault(readErr, dbErr)]
        nr == NewRequestRefiller(NewRequest(browser, body, routeVars), readErr)
        r1 == ParseForm(nr.request)
        action == FormValue(r1, "action")
        r2 == Refill(nr.refill, r1)
    IN  IF nr.err THEN
            Outcome(Error(l0, StatusInternalServerError), store, sessions, issued)
        ELSE IF action = "" THEN
            Outcome(Error(l0, StatusInternalServerError), store, sessions, issued)
        ELSE
            deleteRepositoryHelper(l0, r2, who, dbErr)

repoSettings(browser, body, routeVars, who, readErr, dbErr) ==
    LET l0 == [Start("repoSettings", browser, body, who)
                  EXCEPT !.fault = Fault(readErr, dbErr)]
        nr == NewRequestRefiller(NewRequest(browser, body, routeVars), readErr)
        r1 == ParseForm(nr.request)
        action == FormValue(r1, "action")
        r2 == Refill(nr.refill, r1)
    IN  IF nr.err THEN
            Outcome(Error(l0, StatusInternalServerError), store, sessions, issued)
        ELSE IF action = "" THEN
            Outcome(Error(l0, StatusInternalServerError), store, sessions, issued)
        ELSE IF action = "delete" THEN
            deleteRepositoryHelper(l0, r2, who, dbErr)
        ELSE
            proxyRequest(l0, r2)

\* addSSHKey from the line after isEnabled was read: isEnabled is what
\* db.WebauthnStore.IsUserEnabled answered
addSSHKey_AfterIsUserEnabled(browser, body, who, readErr, dbErr, isEnabled) ==
    LET l0 == [Start("addSSHKey", browser, body, who)
                  EXCEPT !.fault = Fault(readErr, dbErr)]
        r0 == NewRequest(browser, body, <<>>)
        uid == userIDFromSession(who)
        l1 == [l0 EXCEPT !.calls = {"session2user"}]
        query == QueryByUserID(uid.userID)
        l2 == [l1 EXCEPT !.calls = @ \cup {"IsUserEnabled"}, !.tested = query]
        nr == NewRequestRefiller(r0, readErr)
        r1 == ParseForm(nr.request)
        assertion == FormValue(r1, "assertion")
        sshKeyName == FormValue(r1, "title")
        extensions == SetExt(MakeExt, "txAuthSimple", AddSSHKeyText(sshKeyName))
        chk == checkWebauthnAssertion(browser, query, extensions, assertion, dbErr)
        l3 == Checked(l2, chk, extensions, assertion)
        r2 == Refill(nr.refill, r1)
    IN  IF uid.err THEN
            Outcome(Error(l1, StatusInternalServerError), store, sessions, issued)
        ELSE IF ~isEnabled THEN
            Outcome(ServeHTTP(l2, r0), store, sessions, issued)
        ELSE IF nr.err THEN
            Outcome(Error(l2, StatusInternalServerError), store, sessions, issued)
        ELSE IF assertion = "" \/ sshKeyName = "" THEN
            Outcome(Error(l2, StatusInternalServerError), store, sessions, issued)
        ELSE IF chk.err # "" THEN
            Outcome(Error(l3, StatusBadRequest), store, chk.sessions, issued)
        ELSE
            Outcome(ServeHTTP(l3, r2), store, chk.sessions,
                    Finished(issued, chk.loaded))

\* the handler run in one piece: isEnabled is read from the store as it is
addSSHKey(browser, body, who, readErr, dbErr) ==
    addSSHKey_AfterIsUserEnabled(browser, body, who, readErr, dbErr,
        IsUserEnabled(store, QueryByUserID(userIDFromSession(who).userID)))

\* a deleteSSHKey that verifies against the user a form field names
deleteSSHKey_VerifyFormUser(browser, body, who, readErr, dbErr) ==
    LET l0 == [Start("deleteSSHKey", browser, body, who)
                  EXCEPT !.fault = Fault(readErr, dbErr)]
        r0 == NewRequest(browser, body, <<>>)
        uid == userIDFromSession(who)
        l1 == [l0 EXCEPT !.calls = {"session2user"}]
        query == QueryByUserID(uid.userID)
        isEnabled == IsUserEnabled(store, query)
        l2 == [l1 EXCEPT !.calls = @ \cup {"IsUserEnabled"}, !.tested = query]
        nr == NewRequestRefiller(r0, readErr)
        r1 == ParseForm(nr.request)
        assertion == FormValue(r1, "assertion")
        sshKeyID == ParseInt(FormValue(r1, "id"))
        sshKey == sshKeyFromSSHKeyID(sshKeyID.val)
        l3 == [l2 EXCEPT !.calls = @ \cup {"ssh_key"}]
        extensions == SetExt(MakeExt, "txAuthSimple", DeleteSSHKeyText(sshKey.Name))
        chk == checkWebauthnAssertion(browser,
                   QueryByUsername(FormValue(r1, "user_name")),
                   extensions, assertion, dbErr)
        l4 == Checked(l3, chk, extensions, assertion)
        r2 == Refill(nr.refill, r1)
    IN  IF uid.err THEN
            Outcome(Error(l1, StatusInternalServerError), store, sessions, issued)
        ELSE IF ~isEnabled THEN
            Outcome(ServeHTTP(l2, r0), store, sessions, issued)
        ELSE IF nr.err THEN
            Outcome(Error(l2, StatusInternalServerError), store, sessions, issued)
        ELSE IF assertion = "" THEN
            Outcome(Error(l2, StatusInternalServerError), store, sessions, issued)
        ELSE IF sshKeyID.err THEN
            Outcome(Error(l2, StatusInternalServerError), store, sessions, issued)
        ELSE IF sshKey.err THEN
            Outcome(Error(l3, StatusInternalServerError), store, sessions, issued)
        ELSE IF chk.err # "" THEN
            Outcome(Error(l4, StatusBadRequest), store, chk.sessions, issued)
        ELSE
            Outcome(ServeHTTP(l4, r2), store, chk.sessions,
                    Finished(issued, chk.loaded))

deleteSSHKey(browser, body, who, readErr, dbErr) ==
    LET l0 == [Start("deleteSSHKey", browser, body, who)
                  EXCEPT !.fault = Fault(readErr, dbErr)]
        r0 == NewRequest(browser, body, <<>>)
        uid == userIDFromSession(who)
        l1 == [l0 EXCEPT !.calls = {"session2user"}]
        query == QueryByUserID(uid.userID)
        isEnabled == IsUserEnabled(store, query)
        l2 == [l1 EXCEPT !.calls = @ \cup {"IsUserEnabled"}, !.tested = query]
        nr == NewRequestRefiller(r0, readErr)
        r1 == ParseForm(nr.request)
        assertion == FormValue(r1, "assertion")
        sshKeyID == ParseInt(FormValue(r1, "id"))
        sshKey == sshKeyFromSSHKeyID(sshKeyID.val)
        l3 == [l2 EXCEPT !.calls = @ \cup {"ssh_key"}]
        extensions == SetExt(MakeExt, "txAuthSimple", DeleteSSHKeyText(sshKey.Name))
        chk == checkWebauthnAssertion(browser, query, extensions, assertion, dbErr)
        l4 == Checked(l3, chk, extensions, assertion)
        r2 == Refill(nr.refill, r1)
    IN  IF uid.err THEN
            Outcome(Error(l1, StatusInternalServerError), store, sessions, issued)
        ELSE IF ~isEnabled THEN
            Outcome(ServeHTTP(l2, r0), store, sessions, issued)
        ELSE IF nr.err THEN
            Outcome(Error(l2, StatusInternalServerError), store, sessions, issued)
        ELSE IF assertion = "" THEN
            Outcome(Error(l2, StatusInternalServerError), store, sessions, issued)
        ELSE IF sshKeyID.err THEN
            Outcome(Error(l2, StatusInternalServerError), store, sessions, issued)
        ELSE IF sshKey.err THEN
            Outcome(Error(l3, StatusInternalServerError), store, sessions, issued)
        ELSE IF chk.err # "" THEN
            Outcome(Error(l4, StatusBadRequest), store, chk.sessions, issued)
        ELSE
            Outcome(ServeHTTP(l4, r2), store, chk.sessions,
                    Finished(issued, chk.loaded))

----------------------------------------------------------------------------
(* The requests clients send *)

\* a form body: the fields with a value, in order
Fields(pairs) == SelectSeq(pairs, LAMBDA p : p[2] # "")

\* the assertions offered to a handler: none, one signed by the user's key
\* k1 for each challenge and each extension map of exts, and one signed by
\* the foreign key k2
Assertions(exts, match) ==
    {""} \cup {AssertionBlob(c, "k1", e) : c \in Challenges, e \in exts}
         \cup {AssertionBlob(c, "k2", match) : c \in Challenges}

Whos == {0} \cup UserIDs

\* a request meets at most one fault of its environment
Faults == {"none", "read", "db"}

\* the username and userID fields of a registration form: the two are
\* separate fields of the client, which may name one user under another's id
RegisterPairs ==
    {<<"alice", "1">>, <<"bob", "2">>, <<"alice", "2">>, <<"", "1">>, <<"alice", "x">>}

----------------------------------------------------------------------------
(* The state machine *)

\* no request is being handled
Idle == Start("none", "b1", <<>>, 0)

\* no accessor has been called, no firewall has been built
IdleAccessors == [built |-> FALSE]

IdleFirewall == [built |-> FALSE]

\* no gated request is being handled step by step
IdleGated == [pc |-> "none"]

\* no dispatch yet: what the router's observation holds before a request
NoDispatch == [method |-> "", path |-> <<>>, handler |-> "none"]

\* no call of userIDFromJWT under observation
IdleJWT == [present |-> FALSE, header |-> <<>>, ended |-> "none", userID |-> 0]

\* no router under observation
IdleRouter ==
    [program |-> "none", routes |-> <<>>, listening |-> FALSE, served |-> 0,
     dispatched |-> NoDispatch]

IdleRefiller ==
    [request |-> NewRequest("b1", <<>>, <<>>), refill |-> [data |-> <<>>],
     built |-> FALSE, failed |-> FALSE, captured |-> <<>>,
     fresh |-> FALSE, got |-> <<>>, gotFresh |-> FALSE, refills |-> 0, steps |-> 0]

Init ==
    /\ store = {}
    /\ sessions = [b \in Browsers |-> [k \in Kinds |-> NoSessionData]]
    /\ issued = <<>>
    /\ jwt = IdleJWT
    /\ router = IdleRouter
    /\ gated = IdleGated
    /\ last = Idle
    /\ rf = IdleRefiller
    /\ xr = IdleAccessors
    /\ fw = IdleFirewall

\* a request arrives when the previous response has been sent; the handler
\* runs to its response
Apply(out) ==
    /\ last' = out.last
    /\ store' = out.store
    /\ sessions' = out.sessions
    /\ issued' = out.issued
    /\ UNCHANGED <<rf, xr, fw, gated, router, jwt>>

\* the response (or the backend's answer) goes back to the client
ResponseSent ==
    /\ last.handler # "none"
    /\ last' = Idle
    /\ UNCHANGED <<store, sessions, issued, rf, xr, fw, gated, router, jwt>>

WebauthnIsEnabledReq ==
    /\ last.handler = "none"
    /\ \E b \in Browsers, user \in Usernames :
           Apply(webauthnIsEnabled(b, user))

BeginRegisterReq ==
    /\ last.handler = "none"
    /\ Len(issued) < MaxChallenges
    /\ \E b \in Browsers, p \in RegisterPairs, saveErr \in BOOLEAN :
        /\ saveErr => p = <<"alice", "1">>
        /\ Apply(beginRegister(b, Fields(<< <<"username", p[1]>>, <<"userID", p[2]>> >>),
                               saveErr))

FinishRegisterReq ==
    /\ last.handler = "none"
    /\ \E b \in Browsers, p \in RegisterPairs,
          cred \in {""} \cup {CredentialBlob(c, "k1") : c \in Challenges} :
           Apply(finishRegister(b, Fields(<< <<"username", p[1]>>, <<"userID", p[2]>>,
                                             <<"credentials", cred>> >>)))

BeginLoginReq ==
    /\ last.handler = "none"
    /\ Len(issued) < MaxChallenges
    /\ \E b \in Browsers, u \in {""} \cup Usernames, saveErr \in BOOLEAN :
        /\ saveErr => u = "alice"
        /\ Apply(beginLogin(b, Fields(<< <<"user_name", u>> >>), saveErr))

BeginAttestationReq ==
    /\ last.handler = "none"
    /\ Len(issued) < MaxChallenges
    /\ \E b \in Browsers, who \in Whos,
          text \in {"", RepoDeleteText("alice", "r1"), RepoDeleteText("alice", "r2")},
          saveErr \in BOOLEAN :
        /\ saveErr => (who = 1 /\ text = RepoDeleteText("alice", "r1"))
        /\ Apply(beginAttestation(b, Fields(<< <<"auth_text", text>> >>), who, saveErr))

FinishLoginReq ==
    /\ last.handler = "none"
    /\ \E b \in Browsers, u \in {""} \cup Usernames,
          a \in Assertions({"nil", "empty", "r1"}, "nil"), f \in Faults :
           /\ f # "none" => a = AssertionBlob(1, "k1", "nil")
           /\ Apply(finishLogin(b, Fields(<< <<"user_name", u>>, <<"assertion", a>> >>),
                                f = "read", f = "db"))

DisableWebauthnReq ==
    /\ last.handler = "none"
    /\ \E b \in Browsers, who \in Whos,
          a \in Assertions({"nil", "dis1", "r1"}, "dis1"), f \in {"none", "db"} :
           /\ f # "none" => a = AssertionBlob(1, "k1", "dis1")
           /\ Apply(disableWebauthn(b, Fields(<< <<"assertion", a>> >>), who, f = "db"))

RepoSettingsReq ==
    /\ last.handler = "none"
    /\ \E b \in Browsers, who \in Whos, repo \in RepoNames,
          action \in {"", "delete", "mirror"},
          a \in Assertions({"nil", "empty", "r1", "r2", "r1x"}, "r1"), f \in Faults :
           /\ f # "none" => a = AssertionBlob(1, "k1", "r1")
           /\ action # "delete" => a \in {"", AssertionBlob(1, "k1", "r1")}
           /\ Apply(repoSettings(b, Fields(<< <<"action", action>>, <<"assertion", a>> >>),
                                 [username |-> "alice", reponame |-> repo],
                                 who, f = "read", f = "db"))

AddSSHKeyReq ==
    /\ last.handler = "none"
    /\ \E b \in Browsers, who \in Whos, title \in {"", "work"},
          a \in Assertions({"nil", "addkey", "r1"}, "addkey"), f \in Faults :
           /\ f # "none" => a = AssertionBlob(1, "k1", "addkey")
           /\ Apply(addSSHKey(b, Fields(<< <<"title", title>>, <<"assertion", a>> >>),
                              who, f = "read", f = "db"))

DeleteSSHKeyReq ==
    /\ last.handler = "none"
    /\ \E b \in Browsers, who \in Whos, id \in {"1", "2", "x"},
          a \in Assertions({"nil", "delkey", "r1"}, "delkey"), f \in Faults :
           /\ f # "none" => a = AssertionBlob(1, "k1", "delkey")
           /\ Apply(deleteSSHKey(b, Fields(<< <<"id", id>>, <<"assertion", a>> >>),
                                 who, f = "read", f = "db"))

ProxyReq ==
    /\ last.handler = "none"
    /\ \E b \in Browsers, body \in {<<>>, << <<"q", "x">> >>} :
           Apply(proxyRequest(Start("proxyRequest", b, body, 0),
                              NewRequest(b, body, <<>>)))

Next ==
    \/ WebauthnIsEnabledReq
    \/ BeginRegisterReq
    \/ FinishRegisterReq
    \/ BeginLoginReq
    \/ BeginAttestationReq
    \/ FinishLoginReq
    \/ DisableWebauthnReq
    \/ RepoSettingsReq
    \/ AddSSHKeyReq
    \/ DeleteSSHKeyReq
    \/ ProxyReq
    \/ ResponseSent

Spec == Init /\ [][Next]_vars

----------------------------------------------------------------------------
(* The RequestRefiller on its own: a request body, the construction, and   *)
(* any sequence of reads and refills                                       *)

Bytes == {<<"a", "1">>, <<"b", "2">>}

Bodies ==
    {<<>>} \cup {<<x>> : x \in Bytes} \cup {<<x, y>> : x \in Bytes, y \in Bytes}
           \cup {<<x, y, z>> : x \in Bytes, y \in Bytes, z \in Bytes}

InitRefill ==
    /\ store = {}
    /\ sessions = [b \in Browsers |-> [k \in Kinds |-> NoSessionData]]
    /\ issued = <<>>
    /\ jwt = IdleJWT
    /\ router = IdleRouter
    /\ gated = IdleGated
    /\ last = Idle
    /\ \E body \in Bodies :
        rf = [IdleRefiller EXCEPT !.request = NewRequest("b1", body, <<>>)]
    /\ xr = IdleAccessors
    /\ fw = IdleFirewall

\* NewRequestRefiller(r); captured is what the body stream held at the call
RfNew ==
    /\ ~rf.built /\ ~rf.failed
    /\ \E readErr \in BOOLEAN :
        LET nr == NewRequestRefiller(rf.request, readErr)
        IN  rf' = [rf EXCEPT !.request = nr.request, !.refill = nr.refill,
                             !.built = ~nr.err, !.failed = nr.err,
                             !.captured = IF nr.err THEN <<>> ELSE rf.request.Body,
                             !.fresh = ~nr.err]
    /\ UNCHANGED <<store, sessions, issued, last, xr, fw, gated, router, jwt>>

\* some reader takes n bytes of the body
RfRead ==
    /\ rf.steps < MaxRefillSteps
    /\ \E n \in 1..2 :
        rf' = [rf EXCEPT !.request = ReadN(rf.request, n).request,
                         !.fresh = FALSE, !.steps = @ + 1]
    /\ UNCHANGED <<store, sessions, issued, last, xr, fw, gated, router, jwt>>

\* some reader reads the body to its end
RfReadAll ==
    /\ rf.steps < MaxRefillSteps
    /\ rf' = [rf EXCEPT !.request = ReadAll(rf.request).request,
                        !.got = ReadAll(rf.request).data,
                        !.gotFresh = rf.fresh,
                        !.fresh = FALSE, !.steps = @ + 1]
    /\ UNCHANGED <<store, sessions, issued, last, xr, fw, gated, router, jwt>>

\* rf.Refill()
RfRefill ==
    /\ rf.built
    /\ rf.steps < MaxRefillSteps
    /\ rf' = [rf EXCEPT !.request = Refill(rf.refill, rf.request),
                        !.fresh = TRUE, !.gotFresh = FALSE,
                        !.refills = @ + 1, !.steps = @ + 1]
    /\ UNCHANGED <<store, sessions, issued, last, xr, fw, gated, router, jwt>>

NextRefill ==
    \/ RfNew
    \/ RfRead
    \/ RfReadAll
    \/ RfRefill

SpecRefill == InitRefill /\ [][NextRefill]_vars

----------------------------------------------------------------------------
(* Reading a finished request                                              *)

\* the handlers that guard a backend action with an assertion
GatedHandlers == {"finishLogin", "deleteRepositoryHelper", "addSSHKey", "deleteSSHKey"}

BeginHandlers == {"beginLogin", "beginAttestation"}

\* the value of a form field of a body, as a handler reads it
BodyField(body, key) == FormValue(ParseForm(NewRequest("b1", body, <<>>)), key)

\* the principal a handler queries the credential store for: the login
\* routes name it in the form, every other route by the backend's user
Principal(l) ==
    IF l.handler \in {"finishLogin", "beginLogin"}
    THEN QueryByUsername(BodyField(l.body, "user_name"))
    ELSE QueryByUserID(l.who)

PrincipalKnown(l) ==
    IF l.handler \in {"finishLogin", "beginLogin"}
    THEN BodyField(l.body, "user_name") # ""
    ELSE l.who # 0

\* the assertion of the request answers the session the request loaded, is
\* signed by a credential of the principal and echoes the expected extensions
ValidAssertion(l) ==
    LET a == ParseAssertion(l.assertion)
    IN  /\ a.ok
        /\ l.loaded # 0
        /\ a.challenge = l.loaded
        /\ \E row \in store : Matches(row, Principal(l)) /\ row.key = a.key
        /\ a.extensions = l.expected

\* an extension map that holds a transaction string and nothing else
IsTx(ext) ==
    /\ ~ext.isNil
    /\ Cardinality(ext.kv) = 1
    /\ \A p \in ext.kv : p[1] = "txAuthSimple"

\* the extensions the authentication ceremony of that challenge was begun with
BegunExt(challenge) == issued[challenge].options.extensions

----------------------------------------------------------------------------
(* C1 *)

\* C1: for a principal with an enabled credential record, a gated handler
\* (finishLogin, deleteRepositoryHelper under repoSettings, addSSHKey,
\* deleteSSHKey) forwards to the backend only when checkWebauthnAssertion
\* succeeded in that request, on a present assertion that answers the loaded
\* session, is signed by the principal and echoes the expected extensions.
C1_GatedForwardOnlyAfterCheck ==
    ( /\ last.handler \in GatedHandlers
      /\ IsUserEnabled(store, Principal(last))
      /\ last.forwarded )
    => ( /\ last.checked = "ok"
         /\ last.assertion # ""
         /\ ValidAssertion(last) )

\* a repository delete of an enabled user has gone through to the backend
C1_Witness ==
    /\ last.handler = "deleteRepositoryHelper"
    /\ IsUserEnabled(store, Principal(last))
    /\ last.forwarded
    /\ last.checked = "ok"

----------------------------------------------------------------------------
(* C2 *)

----------------------------------------------------------------------------
(* C3 *)

\* C3: checkWebauthnAssertion succeeds only when the extension map the client
\* echoes equals the expected map of the request (nil or not, the same keys,
\* the same values); a failed check ends the request with StatusBadRequest,
\* nothing forwarded and no credential deleted.
C3_ExtensionsEqualOrRejected ==
    /\ last.checked = "ok"
         => ParseAssertion(last.assertion).extensions = last.expected
    /\ last.checked \in {"user", "session", "verify"}
         => ( /\ last.status = StatusBadRequest
              /\ ~last.forwarded
              /\ "Delete" \notin last.calls )

\* an assertion valid but for an extra key in the echoed map: rejected
C3_Witness ==
    LET a == ParseAssertion(last.assertion)
    IN  /\ last.checked = "verify"
        /\ last.expected = EchoExts.r1
        /\ a.ok /\ a.challenge = last.loaded /\ a.key = "k1"
        /\ a.extensions = EchoExts.r1x
        /\ last.status = StatusBadRequest

----------------------------------------------------------------------------
(* C4, C5 *)

\* the ceremony kind whose session a finish request addresses
KindOf(l) == IF l.handler = "finishRegister" THEN "registration" ELSE "authentication"

\* the request went as far as loading its ceremony session
ReachedLoad(l) == "GetWebauthnSession" \in l.calls

\* the challenge the submission of a finish request answers (0: none)
Submitted(l) ==
    IF l.handler = "finishRegister"
    THEN ParseCredential(BodyField(l.body, "credentials")).challenge
    ELSE ParseAssertion(BodyField(l.body, "assertion")).challenge

\* a request arrives and is answered in this step
Handled == last.handler = "none" /\ last'.handler # "none"

----------------------------------------------------------------------------
(* C6 *)

\* C6 (as stated): for a principal with no enabled credential record a gated
\* action is forwarded to the backend with no ceremony: no session is loaded,
\* the verification primitive is not called, and the request is not rejected.
C6_NotEnabledForwardsWithoutCeremony ==
    ( /\ last.handler \in GatedHandlers
      /\ last.fault = "none"
      /\ PrincipalKnown(last)
      /\ ~IsUserEnabled(store, Principal(last)) )
    => ( /\ last.forwarded
         /\ "GetWebauthnSession" \notin last.calls
         /\ "FinishLogin" \notin last.calls
         /\ last.written # "error" )

----------------------------------------------------------------------------
(* C7, C8 *)

\* the extensions the caller of beginAttestation_base supplies
Supplied(l) ==
    IF l.handler = "beginLogin" THEN NilExt
    ELSE SetExt(MakeExt, "txAuthSimple", BodyField(l.body, "auth_text"))

\* C7: for a principal with no enabled credential record
\* beginAttestation_base answers StatusOK with no payload, does not call
\* BeginLogin and leaves the session store (and every other store) as it was.
C7_BeginNotEnabledNoop ==
    [][ ( /\ Handled
          /\ last'.handler \in BeginHandlers
          /\ "IsUserEnabled" \in last'.calls
          /\ ~IsUserEnabled(store, Principal(last')) )
        => ( /\ last'.status = StatusOK
             /\ last'.written = ""
             /\ last'.options = NoOptions
             /\ "BeginLogin" \notin last'.calls
             /\ "SaveWebauthnSession" \notin last'.calls
             /\ sessions' = sessions
             /\ issued' = issued
             /\ store' = store ) ]_vars

\* a user without credentials begins an attestation while the browser session
\* holds the pending authentication session of another user
C7_Witness ==
    /\ last.handler = "beginAttestation"
    /\ "IsUserEnabled" \in last.calls
    /\ ~IsUserEnabled(store, Principal(last))
    /\ last.status = StatusOK
    /\ sessions[last.browser]["authentication"].present

\* C8 (as stated): for an enabled principal the begin attaches the supplied
\* extension to the options it returns and to the session it persists under
\* the kind "authentication".
C8_ExtensionOnOptionsAndSession ==
    (last.handler \in BeginHandlers /\ last.written = "options")
    => ( /\ last.options.extensions = Supplied(last)
         /\ sessions[last.browser]["authentication"].present
         /\ sessions[last.browser]["authentication"].extensions = Supplied(last) )

\* C8 (amended): for an enabled principal the begin attaches the supplied
\* extension to the options it returns only; the session it persists under
\* the kind "authentication" holds the challenge of those options and the nil
\* extensions BeginLogin was called with.
C8_ExtensionOnOptionsOnly ==
    (last.handler \in BeginHandlers /\ last.written = "options")
    => ( /\ last.options.extensions = Supplied(last)
         /\ sessions[last.browser]["authentication"].present
         /\ sessions[last.browser]["authentication"].challenge = last.options.challenge
         /\ sessions[last.browser]["authentication"].extensions = NilExt )

\* an attestation begun with a transaction string
C8_Witness ==
    /\ last.handler = "beginAttestation"
    /\ last.written = "options"
    /\ last.options.extensions = EchoExts.r1
    /\ sessions[last.browser]["authentication"].challenge = last.options.challenge

----------------------------------------------------------------------------
(* C9, C10 *)

\* the handlers that parse fields of the body and forward
ParsingHandlers ==
    {"finishLogin", "repoSettings", "deleteRepositoryHelper", "addSSHKey", "deleteSSHKey"}

\* C9: whenever a handler that parses body fields forwards the request, the
\* body the backend receives is the body the request came with.
C9_BodyPreserved ==
    (last.handler \in ParsingHandlers /\ last.forwarded) => last.fwdBody = last.body

\* a checked repository delete has been forwarded with its form
C9_Witness ==
    /\ last.handler = "deleteRepositoryHelper"
    /\ last.checked = "ok"
    /\ last.forwarded
    /\ Len(last.body) = 2
    /\ last.fwdBody = last.body

\* C10: once NewRequestRefiller has succeeded, whatever reads and Refills
\* follow, the bytes it holds are those the body held at the construction,
\* the body right after the construction or a Refill holds them all, and a
\* read to the end from there yields them.
C10_RefillRestoresCaptured ==
    rf.built => ( /\ rf.refill.data = rf.captured
                  /\ rf.fresh => rf.request.Body = rf.captured
                  /\ rf.gotFresh => rf.got = rf.captured )

\* after reads and two Refills the body has been read to its end again
C10_Witness ==
    /\ rf.built
    /\ rf.refills >= 2
    /\ rf.gotFresh
    /\ Len(rf.captured) = 3
    /\ rf.got = rf.captured

----------------------------------------------------------------------------
(* ExtendedRequest: an http.Request with a refiller, an error slot, the    *)
(* default getter of its route and the table of context getters            *)

\* the number of accessor calls made on one request
MaxAccessorCalls == 3

\* an error value: its text and which error it is (0: nil)
NoErr == [text |-> "", id |-> 0]

NewErr(text, id) == [text |-> text, id |-> id]

\* JSON values as json.Decoder with UseNumber yields them
JString(str) == [t |-> "string", s |-> str, o |-> <<>>]
JNumber(str) == [t |-> "number", s |-> str, o |-> <<>>]
JNull == [t |-> "null", s |-> "", o |-> <<>>]
JObject(members) == [t |-> "object", s |-> "", o |-> members]

\* cast[arg] on a jsonBody: the member of that name, nil when there is none
Member(v, key) ==
    IF \E i \in DOMAIN v.o : v.o[i][1] = key
    THEN v.o[CHOOSE i \in DOMAIN v.o : v.o[i][1] = key][2]
    ELSE JNull

\* a request with its content type: "form" bodies are sequences of fields,
\* a "json" body is one JSON document
NewTypedRequest(ctype, body, routeVars) ==
    [Body |-> body, Form |-> NoForm, Vars |-> routeVars, Cookie |-> "b1",
     ctype |-> ctype]

\* r.Request.FormValue(key): the first call parses the form; only a form body
\* is read for it
TypedParseForm(r) ==
    IF r.ctype = "form" THEN ParseForm(r)
    ELSE IF r.Form.parsed THEN r
    ELSE [r EXCEPT !.Form = [parsed |-> TRUE, vals |-> <<>>]]

\* dec.Decode(&body): reads the body stream; io.EOF on an empty stream, a
\* syntax error on a body that is no JSON document
Decode(r) ==
    IF r.Body = <<>>
    THEN [err |-> "EOF", value |-> JNull, request |-> r]
    ELSE IF r.ctype # "json"
    THEN [err |-> "invalid character", value |-> JNull,
          request |-> [r EXCEPT !.Body = <<>>]]
    ELSE [err |-> "", value |-> r.Body[1], request |-> [r EXCEPT !.Body = <<>>]]

\* work counts the calls of getters and context resolvers, made the errors
\* created on the request
NewExtendedRequest(ctype, body, routeVars, getInputDefault, contextGetters) ==
    [Request |-> NewTypedRequest(ctype, body, routeVars),
     data |-> body,
     err |-> NoErr,
     getInputDefault |-> getInputDefault,
     contextGetters |-> contextGetters,
     work |-> 0, made |-> 0]

\* r.Refill()
ExtendedRefill(er) == [er EXCEPT !.Request.Body = er.data]

Got(val, er) == [val |-> val, err |-> "", er |-> er]

Failed(text, er) == [val |-> "", err |-> text, er |-> er]

GetFormInput(er, args) ==
    IF Len(args) # 1 THEN Failed("Form inputs expect only 1 argument", er)
    ELSE LET r1 == TypedParseForm(er.Request)
             val == FormValue(r1, args[1])
             er1 == [er EXCEPT !.Request = r1]
         IN  IF val = "" THEN Failed("Invalid form-data parameters", er1)
             ELSE Got(val, er1)

GetURLInput(er, args) ==
    IF Len(args) # 1 THEN Failed("URL inputs expect only 1 argument", er)
    ELSE Got(MuxVar(er.Request, args[1]), er)

\* the loop over args: cast to jsonBody, then take the member
RECURSIVE Descend(_, _)
Descend(body, args) ==
    IF args = <<>> THEN [err |-> "", value |-> body]
    ELSE IF body.t # "object"
    THEN [err |-> "Unable to cast intermediate to jsonBody", value |-> JNull]
    ELSE Descend(Member(body, Head(args)), Tail(args))

\* strconv.FormatFloat(f, 'f', -1, 64) of the number tokens of the model
FormatFloat(token) == IF token = "1.50" THEN "1.5" ELSE token

\* a GetJSONInput that decodes numbers as float64
GetJSONInput_Float(er, args) ==
    IF Len(args) < 1 THEN Failed("JSON inputs expect at least 1 argument", er)
    ELSE LET dec == Decode(er.Request)
             er1 == [er EXCEPT !.Request = dec.request]
             leaf == Descend(dec.value, args)
         IN  IF dec.err # "" THEN Failed(dec.err, er1)
             ELSE IF leaf.err # "" THEN Failed(leaf.err, er1)
             ELSE IF leaf.value.t = "string"
             THEN Got(leaf.value.s, ExtendedRefill(er1))
             ELSE IF leaf.value.t = "number"
             THEN Got(FormatFloat(leaf.value.s), ExtendedRefill(er1))
             ELSE Failed("Unable to cast result to string", er1)

GetJSONInput(er, args) ==
    IF Len(args) < 1 THEN Failed("JSON inputs expect at least 1 argument", er)
    ELSE LET dec == Decode(er.Request)
             er1 == [er EXCEPT !.Request = dec.request]
             leaf == Descend(dec.value, args)
         IN  IF dec.err # "" THEN Failed(dec.err, er1)
             ELSE IF leaf.err # "" THEN Failed(leaf.err, er1)
             ELSE IF leaf.value.t \notin {"string", "number"}
             THEN Failed("Unable to cast result to string", er1)
             ELSE Got(leaf.value.s, ExtendedRefill(er1))

\* getInputFn(r, args...) for the getter of that name
CallGetter(getInputFn, er, args) ==
    CASE getInputFn = "GetFormInput" -> GetFormInput(er, args)
      [] getInputFn = "GetURLInput" -> GetURLInput(er, args)
      [] getInputFn = "GetJSONInput" -> GetJSONInput(er, args)

\* what an accessor returns: the string or the number, the error, the request
Ret(str, int, err, er) == [str |-> str, int |-> int, err |-> err, er |-> er]

\* r.err = err for an error made now
SetErr(er, text) ==
    [er EXCEPT !.err = NewErr(text, er.made + 1), !.made = @ + 1]

\* a helper that calls the getter whatever the error slot holds
getInput_WithErr_Helper_NoShortCircuit(er, getInputFn, args) ==
    LET g == CallGetter(getInputFn, [er EXCEPT !.work = @ + 1], args)
    IN  IF g.err # ""
        THEN Ret("", 0, SetErr(g.er, g.err).err, SetErr(g.er, g.err))
        ELSE Ret(g.val, 0, er.err, g.er)

getInput_WithErr_Helper(er, getInputFn, args) ==
    IF er.err # NoErr THEN Ret("", 0, er.err, er)
    ELSE LET g == CallGetter(getInputFn, [er EXCEPT !.work = @ + 1], args)
         IN  IF g.err # ""
             THEN Ret("", 0, SetErr(g.er, g.err).err, SetErr(g.er, g.err))
             ELSE Ret(g.val, 0, NoErr, g.er)

getInputInt64_WithErr_Helper(er, getInputFn, args) ==
    LET h == getInput_WithErr_Helper(er, getInputFn, args)
        valInt == ParseInt(h.str)
    IN  IF h.err # NoErr THEN Ret("", 0, h.err, h.er)
        ELSE IF valInt.err
        THEN Ret("", 0, SetErr(h.er, "invalid syntax").err,
                 SetErr(h.er, "invalid syntax"))
        ELSE Ret("", valInt.val, NoErr, h.er)

\* the context getters of the table: "const" answers a value, "arg" its
\* first argument (an error without one), "fail" an error
CallContextGetter(getter, args) ==
    CASE getter = "const" -> [val |-> "context", err |-> ""]
      [] getter = "arg" -> IF args = <<>> THEN [val |-> "", err |-> "no argument"]
                           ELSE [val |-> args[1], err |-> ""]
      [] getter = "fail" -> [val |-> "", err |-> "getter failed"]

\* a GetContext_WithErr that returns the error of an unknown name without
\* recording it
GetContext_WithErr_NoRecord(er, contextName, args) ==
    IF contextName \notin DOMAIN er.contextGetters
    THEN Ret("", 0, NewErr("Context type does not have getter function", er.made + 1),
             [er EXCEPT !.made = @ + 1])
    ELSE LET c == CallContextGetter(er.contextGetters[contextName], args)
             er1 == [er EXCEPT !.work = @ + 1]
         IN  IF c.err # ""
             THEN Ret("", 0, SetErr(er1, c.err).err, SetErr(er1, c.err))
             ELSE Ret(c.val, 0, NoErr, er1)

GetContext_WithErr(er, contextName, args) ==
    IF contextName \notin DOMAIN er.contextGetters
    THEN Ret("", 0, SetErr(er, "Context type does not have getter function").err,
             SetErr(er, "Context type does not have getter function"))
    ELSE LET c == CallContextGetter(er.contextGetters[contextName], args)
             er1 == [er EXCEPT !.work = @ + 1]
         IN  IF c.err # ""
             THEN Ret("", 0, SetErr(er1, c.err).err, SetErr(er1, c.err))
             ELSE Ret(c.val, 0, NoErr, er1)

\* the accessor methods: the getter of the source (the route's default for
\* Get...), as a string or an int64, with the error or without it
GetterOf(er, source) ==
    CASE source = "Form" -> "GetFormInput"
      [] source = "URL" -> "GetURLInput"
      [] source = "Default" -> er.getInputDefault

\* r.Get<source>Input_WithErr, r.Get<source>InputInt64_WithErr (Get_WithErr,
\* GetInt64_WithErr for the default getter)
Accessor_WithErr(er, source, int64, args) ==
    IF int64 THEN getInputInt64_WithErr_Helper(er, GetterOf(er, source), args)
    ELSE getInput_WithErr_Helper(er, GetterOf(er, source), args)

\* the variants that return the value only: val, _ := ...
Accessor(er, source, int64, args) ==
    [Accessor_WithErr(er, source, int64, args) EXCEPT !.err = NoErr]

\* r.GetContext(contextName, args...)
GetContext(er, contextName, args) ==
    [GetContext_WithErr(er, contextName, args) EXCEPT !.err = NoErr]

----------------------------------------------------------------------------
(* An ExtendedRequest under accessor calls *)

FormBody == << <<"id", "7">>, <<"name", "x">> >>

JSONBody ==
    << JObject(<< <<"id", JNumber("7")>>,
                  <<"ratio", JNumber("1.50")>>,
                  <<"user", JObject(<< <<"name", JString("bob")>> >>)>>,
                  <<"flag", JNull>> >>) >>

ContextGetters == [user |-> "const", echo |-> "arg", broken |-> "fail"]

ExtendedRequests ==
    {NewExtendedRequest("form", body, [id |-> "7"], "GetFormInput", ContextGetters) :
        body \in {<<>>, FormBody}}
    \cup {NewExtendedRequest("json", body, [id |-> "x"], "GetJSONInput", ContextGetters) :
        body \in {<<>>, JSONBody}}

\* the arguments handlers pass to the getters
ArgLists ==
    {<<>>, <<"id">>, <<"name">>, <<"ratio">>, <<"flag">>, <<"user">>,
     <<"user", "name">>, <<"user", "age">>, <<"id", "name">>}

ContextNames == {"user", "echo", "broken", "unknown"}

\* the record of a request under accessor calls: the request, what the last
\* call returned and whether it returned an error at all, the number of
\* calls, whether the error slot was set when the last call began, the slot's
\* first error, and whether the last call called a getter or a resolver
AccessorState(er) ==
    [built |-> TRUE, er |-> er, called |-> "",
     ret |-> Ret("", 0, NoErr, er), withErr |-> FALSE,
     n |-> 0, stuck |-> FALSE, firstErr |-> NoErr, worked |-> FALSE]

Called(name, ret, withErr) ==
    [xr EXCEPT !.er = ret.er, !.called = name,
               !.ret = [ret EXCEPT !.er = ret.er], !.withErr = withErr,
               !.n = @ + 1,
               !.stuck = xr.er.err # NoErr,
               !.firstErr = IF xr.firstErr # NoErr THEN xr.firstErr ELSE ret.er.err,
               !.worked = ret.er.work # xr.er.work]

InitAccessors ==
    /\ store = {}
    /\ sessions = [b \in Browsers |-> [k \in Kinds |-> NoSessionData]]
    /\ issued = <<>>
    /\ jwt = IdleJWT
    /\ router = IdleRouter
    /\ gated = IdleGated
    /\ last = Idle
    /\ rf = IdleRefiller
    /\ fw = IdleFirewall
    /\ \E er \in ExtendedRequests : xr = AccessorState(er)

\* r.GetFormInput..., r.GetURLInput..., r.Get...: one call
XGetFormInput ==
    /\ xr.n < MaxAccessorCalls
    /\ \E int64 \in BOOLEAN, withErr \in BOOLEAN, args \in ArgLists :
        xr' = Called("Form",
                     IF withErr THEN Accessor_WithErr(xr.er, "Form", int64, args)
                     ELSE Accessor(xr.er, "Form", int64, args), withErr)
    /\ UNCHANGED <<store, sessions, issued, last, rf, fw, gated, router, jwt>>

XGetURLInput ==
    /\ xr.n < MaxAccessorCalls
    /\ \E int64 \in BOOLEAN, withErr \in BOOLEAN, args \in ArgLists :
        xr' = Called("URL",
                     IF withErr THEN Accessor_WithErr(xr.er, "URL", int64, args)
                     ELSE Accessor(xr.er, "URL", int64, args), withErr)
    /\ UNCHANGED <<store, sessions, issued, last, rf, fw, gated, router, jwt>>

XGet ==
    /\ xr.n < MaxAccessorCalls
    /\ \E int64 \in BOOLEAN, withErr \in BOOLEAN, args \in ArgLists :
        xr' = Called("Default",
                     IF withErr THEN Accessor_WithErr(xr.er, "Default", int64, args)
                     ELSE Accessor(xr.er, "Default", int64, args), withErr)
    /\ UNCHANGED <<store, sessions, issued, last, rf, fw, gated, router, jwt>>

XGetContext ==
    /\ xr.n < MaxAccessorCalls
    /\ \E withErr \in BOOLEAN, name \in ContextNames, args \in {<<>>, <<"a">>} :
        xr' = Called("Context",
                     IF withErr THEN GetContext_WithErr(xr.er, name, args)
                     ELSE GetContext(xr.er, name, args), withErr)
    /\ UNCHANGED <<store, sessions, issued, last, rf, fw, gated, router, jwt>>

NextAccessors ==
    \/ XGetFormInput
    \/ XGetURLInput
    \/ XGet
    \/ XGetContext

SpecAccessors == InitAccessors /\ [][NextAccessors]_vars

----------------------------------------------------------------------------
(* C11 *)

\* C11 (as stated): once an accessor call on a request has failed, every
\* later accessor call on it (form, route variable, default, context; string
\* or int64) calls no getter and no context resolver, leaves the first error
\* in the error slot, and returns that error where it returns an error.
C11_StickyError ==
    (xr.built /\ xr.n > 0 /\ xr.stuck)
    => ( /\ ~xr.worked
         /\ xr.er.err = xr.firstErr
         /\ xr.withErr => xr.ret.err = xr.firstErr )

----------------------------------------------------------------------------
(* WebauthnFirewall: one reverse proxy per configured host *)

Hosts == {"git.example", "ci.example", "wiki.example"}

\* hosts a client may name: the configured ones and a foreign one
RequestHosts == Hosts \cup {"evil.example"}

BackendAddresses == {"https://localhost:3000", "http://10.0.0.2:8080", "%zz"}

NoURL == [Scheme |-> "", Host |-> ""]

\* url.Parse on the addresses above: a bad percent escape is an error
URLParse(rawurl) ==
    CASE rawurl = "https://localhost:3000" ->
            [err |-> FALSE, url |-> [Scheme |-> "https", Host |-> "localhost:3000"]]
      [] rawurl = "http://10.0.0.2:8080" ->
            [err |-> FALSE, url |-> [Scheme |-> "http", Host |-> "10.0.0.2:8080"]]
      [] OTHER -> [err |-> TRUE, url |-> NoURL]

\* httputil.NewSingleHostReverseProxy(target): every request goes to target;
\* ModifyResponse is nil ("")
NewSingleHostReverseProxy(target) == [target |-> target, ModifyResponse |-> ""]

\* the frontend origins a deployment may configure
FrontendAddresses == {"https://localhost:8081", "https://app.example"}

\* http.Header over the header names of the model: the values of each name
HeaderNames ==
    {"Access-Control-Allow-Origin", "Access-Control-Allow-Credentials", "Content-Type"}

NoHeader == [k \in HeaderNames |-> <<>>]

\* h.Set(key, value)
HeaderSet(h, key, value) == [h EXCEPT ![key] = <<value>>]

\* h.Add(key, value)
HeaderAdd(h, key, value) == [h EXCEPT ![key] = Append(@, value)]

\* copyHeader(dst, src) of the reverse proxy: dst.Add for every value of src
copyHeader(dst, src) == [k \in HeaderNames |-> dst[k] \o src[k]]

\* the responses a backend may send
BackendResponses ==
    {[StatusCode |-> s, Body |-> "page",
      Header |-> [NoHeader EXCEPT !["Access-Control-Allow-Origin"] = o,
                                  !["Access-Control-Allow-Credentials"] = c,
                                  !["Content-Type"] = <<"text/html">>]] :
        s \in {200, 404}, o \in {<<>>, <<"*">>}, c \in {<<>>, <<"true">>}}

\* a ModifyResponse that adds the origin to the header's values
ModifyResponse_Add(allowOrigin, r) ==
    [r EXCEPT !.Header = HeaderAdd(@, "Access-Control-Allow-Origin", allowOrigin)]

\* proxy.ModifyResponse: the closure over config.FrontendAddress
ModifyResponse(allowOrigin, r) ==
    [r EXCEPT !.Header = HeaderSet(@, "Access-Control-Allow-Origin", allowOrigin)]

\* the maps a deployment may configure
TargetMaps == UNION {[S -> BackendAddresses] : S \in SUBSET Hosts}

\* a response writer nothing was written to
NewResponseWriter == [status |-> 0, Header |-> NoHeader, body |-> ""]

\* w.Write(text): the first write without WriteHeader sends status 200
Write(w, text) ==
    [w EXCEPT !.status = IF w.status = 0 THEN StatusOK ELSE w.status, !.body = text]

\* w.WriteHeader(status)
WriteHeader(w, status) ==
    IF w.status = 0 THEN [w EXCEPT !.status = status] ELSE w

\* proxy.ServeHTTP(w, r): one outbound call to the proxy's target, whose
\* answer, after ModifyResponse, is copied to w: headers, status, body
ReverseProxy_ServeHTTP(proxy, w, host, response) ==
    LET res == IF proxy.ModifyResponse = "" THEN response
               ELSE ModifyResponse(proxy.ModifyResponse, response)
        w1 == [w EXCEPT !.Header = copyHeader(@, res.Header)]
    IN  [w |-> Write(WriteHeader(w1, res.StatusCode), res.Body),
         outbound |-> <<proxy.target>>]

\* the preamble of the secured handlers: the credential-forward header
preamble(w) ==
    [w EXCEPT !.Header = HeaderSet(@, "Access-Control-Allow-Credentials", "true")]

\* a firewall before NewWebauthnFirewall: its configuration, and the last
\* forward (the host asked for, the backend's response, the response writer,
\* the outbound calls, whether a secured handler forwarded)
NoFirewall(config, frontend) ==
    [built |-> FALSE, panicked |-> FALSE, ReverseProxyTargetMap |-> config,
     FrontendAddress |-> frontend,
     reverseProxies |-> <<>>, served |-> FALSE, host |-> "",
     response |-> [StatusCode |-> 0, Body |-> "", Header |-> NoHeader],
     secured |-> FALSE,
     w |-> NewResponseWriter, outbound |-> <<>>]

\* a constructor in which every proxy is built for the address of one host
NewWebauthnFirewall_OneTarget(f, initErr) ==
    LET config == f.ReverseProxyTargetMap IN
    IF initErr \/ \E host \in DOMAIN config : URLParse(config[host]).err
    THEN [f EXCEPT !.panicked = TRUE]
    ELSE LET forwardTo ==
                 IF DOMAIN config = {} THEN NoURL
                 ELSE URLParse(config[CHOOSE host \in DOMAIN config : TRUE]).url
         IN [f EXCEPT !.built = TRUE,
                      !.reverseProxies =
                          [host \in DOMAIN config |->
                              [NewSingleHostReverseProxy(forwardTo)
                                  EXCEPT !.ModifyResponse = f.FrontendAddress]]]

NewWebauthnFirewall(f, initErr) ==
    LET config == f.ReverseProxyTargetMap IN
    IF initErr \/ \E host \in DOMAIN config : URLParse(config[host]).err
    THEN [f EXCEPT !.panicked = TRUE]
    ELSE [f EXCEPT !.built = TRUE,
                   !.reverseProxies =
                       [host \in DOMAIN config |->
                           [NewSingleHostReverseProxy(URLParse(config[host]).url)
                               EXCEPT !.ModifyResponse = f.FrontendAddress]]]

\* a forward that falls back to some configured backend
WebauthnFirewall_ServeHTTP_Default(f, w, host, response) ==
    IF host \in DOMAIN f.reverseProxies
    THEN LET served == ReverseProxy_ServeHTTP(f.reverseProxies[host], w, host, response)
         IN [f EXCEPT !.served = TRUE, !.host = host, !.response = response,
                      !.w = served.w, !.outbound = served.outbound]
    ELSE IF DOMAIN f.reverseProxies # {}
    THEN LET proxy == f.reverseProxies[CHOOSE h \in DOMAIN f.reverseProxies : TRUE]
             served == ReverseProxy_ServeHTTP(proxy, w, host, response)
         IN [f EXCEPT !.served = TRUE, !.host = host, !.response = response,
                      !.w = served.w, !.outbound = served.outbound]
    ELSE [f EXCEPT !.served = TRUE, !.host = host, !.response = response,
                   !.w = Write(w, "403: Host forbidden"),
                   !.outbound = <<>>]

WebauthnFirewall_ServeHTTP(f, w, host, response) ==
    IF host \in DOMAIN f.reverseProxies
    THEN LET served == ReverseProxy_ServeHTTP(f.reverseProxies[host], w, host, response)
         IN [f EXCEPT !.served = TRUE, !.host = host, !.response = response,
                      !.w = served.w, !.outbound = served.outbound]
    ELSE [f EXCEPT !.served = TRUE, !.host = host, !.response = response,
                   !.w = Write(w, "403: Host forbidden"),
                   !.outbound = <<>>]

InitFirewall ==
    /\ store = {}
    /\ sessions = [b \in Browsers |-> [k \in Kinds |-> NoSessionData]]
    /\ issued = <<>>
    /\ jwt = IdleJWT
    /\ router = IdleRouter
    /\ gated = IdleGated
    /\ last = Idle
    /\ rf = IdleRefiller
    /\ xr = IdleAccessors
    /\ \E config \in TargetMaps, frontend \in FrontendAddresses :
           fw = NoFirewall(config, frontend)

Construct ==
    /\ ~fw.built
    /\ ~fw.panicked
    /\ \E initErr \in BOOLEAN : fw' = NewWebauthnFirewall(fw, initErr)
    /\ UNCHANGED <<store, sessions, issued, last, rf, xr, gated, router, jwt>>

\* the passthrough handler forwards a request
Forward ==
    /\ fw.built
    /\ \E host \in RequestHosts, response \in BackendResponses :
        fw' = [WebauthnFirewall_ServeHTTP(fw, NewResponseWriter, host, response)
                  EXCEPT !.secured = FALSE]
    /\ UNCHANGED <<store, sessions, issued, last, rf, xr, gated, router, jwt>>

\* a secured handler forwards a request: it has run the preamble
SecuredForward ==
    /\ fw.built
    /\ \E host \in RequestHosts, response \in BackendResponses :
        fw' = [WebauthnFirewall_ServeHTTP(fw, preamble(NewResponseWriter), host, response)
                  EXCEPT !.secured = TRUE]
    /\ UNCHANGED <<store, sessions, issued, last, rf, xr, gated, router, jwt>>

NextFirewall ==
    \/ Construct
    \/ Forward
    \/ SecuredForward

SpecFirewall == InitFirewall /\ [][NextFirewall]_vars

\* the last forward was of a request whose Host has no configured target
UnknownHostServed ==
    /\ fw.built
    /\ fw.served
    /\ fw.host \notin DOMAIN fw.ReverseProxyTargetMap

----------------------------------------------------------------------------
(* C12 *)

\* C12: a forward of a request whose Host has no entry in the target map
\* makes no outbound call to any backend: there is no default backend.
C12_UnknownHostNoOutbound ==
    UnknownHostServed => fw.outbound = <<>>

\* a foreign host was served by a firewall that has backends configured
C12_Witness ==
    /\ UnknownHostServed
    /\ Cardinality(DOMAIN fw.ReverseProxyTargetMap) >= 2
    /\ fw.w.body = "403: Host forbidden"

----------------------------------------------------------------------------
(* C13 *)

\* C13 (as stated): a forward of a request whose Host has no configured
\* target is answered with a 403-class (4xx) HTTP status.
C13_UnknownHostForbiddenStatus ==
    UnknownHostServed => fw.w.status \in 400..499

----------------------------------------------------------------------------
(* C14 *)

\* C14: after construction every entry of reverseProxies targets the URL
\* configured for its own key, and a request with a configured Host is
\* forwarded by exactly one outbound call, to that host's own backend URL.
C14_OwnBackend ==
    fw.built =>
        /\ DOMAIN fw.reverseProxies = DOMAIN fw.ReverseProxyTargetMap
        /\ \A host \in DOMAIN fw.ReverseProxyTargetMap :
              fw.reverseProxies[host].target
                  = URLParse(fw.ReverseProxyTargetMap[host]).url
        /\ (fw.served /\ fw.host \in DOMAIN fw.ReverseProxyTargetMap)
              => fw.outbound = <<URLParse(fw.ReverseProxyTargetMap[fw.host]).url>>

\* a configured host was served by a firewall whose hosts have different
\* backends
C14_Witness ==
    /\ fw.built
    /\ fw.served
    /\ fw.host \in DOMAIN fw.ReverseProxyTargetMap
    /\ \E other \in DOMAIN fw.ReverseProxyTargetMap :
          fw.ReverseProxyTargetMap[other] # fw.ReverseProxyTargetMap[fw.host]
    /\ fw.outbound = <<URLParse(fw.ReverseProxyTargetMap[fw.host]).url>>

----------------------------------------------------------------------------
(* C15 *)

\* the user a register request names in its form
FormUser(l) ==
    NewWebauthnUser(ParseInt(BodyField(l.body, "userID")).val,
                    BodyField(l.body, "username"), {})

\* the form of a finishRegister request has its three fields
RegisterFormOK(l) ==
    /\ BodyField(l.body, "username") # ""
    /\ BodyField(l.body, "credentials") # ""
    /\ ~ParseInt(BodyField(l.body, "userID")).err

\* C15: finishRegister calls Create, adding one credential record for the
\* user of the form, exactly when a "registration" session was loaded and
\* FinishRegistration verified the submission against it; when the session
\* is absent or the verification fails the answer is StatusBadRequest and
\* the credential store is as before.
C15_CreateIffLoadedAndVerified ==
    [][ (Handled /\ last'.handler = "finishRegister") =>
        LET l == last'
            sessionData == sessions[l.browser]["registration"]
            credentials == BodyField(l.body, "credentials")
            loaded == RegisterFormOK(l) /\ sessionData.present
            fin == FinishRegistration(FormUser(l), sessionData, credentials)
            verified == loaded /\ ~fin.err
        IN  /\ ("Create" \in l.calls) <=> verified
            /\ verified =>
                  /\ store' = store \cup {[id |-> FormUser(l).id,
                                           name |-> FormUser(l).name,
                                           key |-> fin.key]}
                  /\ l.status = StatusOK
            /\ ~verified => store' = store
            /\ (RegisterFormOK(l) /\ ~verified) =>
                  /\ l.status = StatusBadRequest
                  /\ l.written = "error"
      ]_vars

\* a registration was finished and its credential saved, and a later
\* finishRegister with the same submission finds no session
C15_Witness ==
    /\ last.handler = "finishRegister"
    /\ RegisterFormOK(last)
    /\ last.calls = {"GetWebauthnSession"}
    /\ last.status = StatusBadRequest
    /\ \E row \in store : row.name = BodyField(last.body, "username")
    /\ \E i \in DOMAIN issued : issued[i].kind = "registration" /\ issued[i].finished = 1

----------------------------------------------------------------------------
(* C16 *)

\* the credential store has an enabled record for the user of that name
Enabled(user) == IsUserEnabled(store, QueryByUsername(user))

\* the user a disableWebauthn request acts for: the one GetWebauthnUser finds
\* for the backend's user id
DisabledUser(l) == GetWebauthnUser(store, QueryByUserID(l.who)).user.name

\* this step is a finishRegister that saved a credential for user
FinishRegisterSucceeds(user) ==
    /\ Handled
    /\ last'.handler = "finishRegister"
    /\ "Create" \in last'.calls
    /\ BodyField(last'.body, "username") = user

\* this step is a disableWebauthn that deleted the records of user
DisableWebauthnSucceeds(user) ==
    /\ Handled
    /\ last'.handler = "disableWebauthn"
    /\ "Delete" \in last'.calls
    /\ DisabledUser(last') = user

\* C16: a successful finishRegister for a user makes the store report the
\* user enabled and a successful disableWebauthn for the user makes it report
\* the user not enabled; no other step changes what the store reports for
\* any user; and every webauthnIsEnabled request for a user answers with
\* what the store reports for that user. Hence webauthnIsEnabled reports
\* true from a successful finishRegister up to the next successful
\* disableWebauthn, and false after it.
C16_EnabledFromRegisterToDisable ==
    [][ \A user \in Usernames :
          /\ FinishRegisterSucceeds(user) => IsUserEnabled(store', QueryByUsername(user))
          /\ DisableWebauthnSucceeds(user) => ~IsUserEnabled(store', QueryByUsername(user))
          /\ (IsUserEnabled(store', QueryByUsername(user)) # Enabled(user))
                => (FinishRegisterSucceeds(user) \/ DisableWebauthnSucceeds(user))
          /\ \A b \in Browsers :
                (last.handler = "none" /\ Apply(webauthnIsEnabled(b, user)))
                    => last'.written = IF Enabled(user) THEN "enabled:true"
                                       ELSE "enabled:false"
      ]_vars

\* webauthnIsEnabled reports false after a registration and a disable
C16_Witness ==
    /\ last.handler = "webauthnIsEnabled"
    /\ last.written = "enabled:false"
    /\ store = {}
    /\ \E i \in DOMAIN issued : issued[i].kind = "registration" /\ issued[i].finished = 1
    /\ \E i \in DOMAIN issued : issued[i].kind = "authentication" /\ issued[i].finished = 1

----------------------------------------------------------------------------
(* C17 *)

RegistrationHandlers == {"beginRegister", "finishRegister"}

\* the last ceremony of that kind begun in that browser session (0: none)
LastBegun(is, browser, kind) ==
    LET begun == {i \in DOMAIN is : is[i].kind = kind /\ is[i].browser = browser}
    IN  IF begun = {} THEN 0 ELSE CHOOSE i \in begun : \A j \in begun : j <= i

\* every pending session is the one written by the last begin of its own kind
PendingOfOwnKind(ss, is) ==
    \A b \in Browsers, kind \in Kinds :
        ss[b][kind].present => ss[b][kind].challenge = LastBegun(is, b, kind)

\* C17: within one browser session the registration handlers (beginRegister,
\* finishRegister) leave the pending "authentication" session as it is,
\* every other handler (beginLogin, beginAttestation and the handlers that
\* call checkWebauthnAssertion among them) leaves the pending "registration"
\* session as it is, and in every interleaving a finish that loads a session
\* loads the one written by the last begin of its own kind.
C17_CeremoniesDoNotInterfere ==
    [][ /\ PendingOfOwnKind(sessions, issued)
        /\ Handled =>
            /\ last'.handler \in RegistrationHandlers =>
                  \A b \in Browsers :
                      sessions'[b]["authentication"] = sessions[b]["authentication"]
            /\ last'.handler \notin RegistrationHandlers =>
                  \A b \in Browsers :
                      sessions'[b]["registration"] = sessions[b]["registration"]
            /\ last'.loaded # 0 =>
                  /\ issued[last'.loaded].kind = KindOf(last')
                  /\ last'.loaded = LastBegun(issued, last'.browser, KindOf(last'))
                  /\ sessions[last'.browser][KindOf(last')].challenge = last'.loaded
      ]_vars

\* a registration was finished on its own session while an authentication
\* session begun after it is still pending
C17_Witness ==
    /\ last.handler = "finishRegister"
    /\ "Create" \in last.calls
    /\ sessions[last.browser]["authentication"].present
    /\ sessions[last.browser]["authentication"].challenge > last.loaded

----------------------------------------------------------------------------
(* C18, C19 *)

\* the handlers that ask the backend who the caller is
SessionHandlers ==
    {"beginAttestation", "disableWebauthn", "deleteRepositoryHelper",
     "addSSHKey", "deleteSSHKey"}

\* a required form field of the request is missing or malformed
InputInvalid(l) ==
    LET missing(key) == BodyField(l.body, key) = ""
        malformed(key) == ParseInt(BodyField(l.body, key)).err
    IN  CASE l.handler = "beginRegister" -> missing("username") \/ malformed("userID")
          [] l.handler = "finishRegister" ->
                missing("username") \/ missing("credentials") \/ malformed("userID")
          [] l.handler = "beginLogin" -> missing("user_name")
          [] l.handler = "beginAttestation" -> missing("auth_text")
          [] l.handler = "finishLogin" -> missing("user_name") \/ missing("assertion")
          [] l.handler = "disableWebauthn" -> missing("assertion")
          [] l.handler = "repoSettings" -> missing("action")
          [] l.handler = "deleteRepositoryHelper" -> missing("assertion")
          [] l.handler = "addSSHKey" -> missing("assertion") \/ missing("title")
          [] l.handler = "deleteSSHKey" -> missing("assertion") \/ malformed("id")
          [] OTHER -> FALSE

\* the request was rejected because of its input: nothing failed in its
\* environment, the backend knew the caller, and a required field is missing
\* or malformed (every handler tests its fields before it verifies anything)
InputRejected(l) ==
    /\ l.written = "error"
    /\ l.fault = "none"
    /\ l.handler \in SessionHandlers => l.who # 0
    /\ InputInvalid(l)

\* the systems outside the proxy a request may contact
ExternalCalls ==
    {"session2user", "ssh_key", "backend",
     "IsUserEnabled", "GetWebauthnUser", "Create", "Delete",
     "GetWebauthnSession", "SaveWebauthnSession",
     "BeginRegistration", "FinishRegistration", "BeginLogin", "FinishLogin"}

\* C18 (as stated): a request rejected because a required input field is
\* missing or malformed has contacted no external system (the backend's
\* whoami call, the credential store, the session store, a WebAuthn
\* primitive) when it is rejected.
C18_InputRejectedBeforeAnyContact ==
    InputRejected(last) => last.calls \cap ExternalCalls = {}

\* something the request depends on failed: reading the body, the
\* credential store, the backend's whoami call or its SSH key lookup
DependencyFailed(l) ==
    \/ l.fault # "none"
    \/ l.handler \in SessionHandlers /\ l.who = 0
    \/ /\ l.handler = "deleteSSHKey"
       /\ "ssh_key" \in l.calls
       /\ l.checked = "none"

\* the request was rejected by the ceremony: its session was absent or the
\* verification of its submission failed
CeremonyRejected(l) ==
    /\ l.written = "error"
    /\ l.fault = "none"
    /\ "GetWebauthnSession" \in l.calls

\* C19 (as stated): a rejection for a missing or malformed input field, for
\* an absent ceremony session or for a failed verification has a 4xx status,
\* and only the failure of an external dependency has a 5xx status.
C19_RejectionTaxonomy ==
    last.written = "error" =>
        /\ InputRejected(last) => last.status \in 400..499
        /\ CeremonyRejected(last) => last.status \in 400..499
        /\ last.status \in 500..599 => DependencyFailed(last)

----------------------------------------------------------------------------
(* C20 *)

\* the secured handlers whose principal is the backend's user of the session
SecuredHandlers ==
    {"disableWebauthn", "deleteRepositoryHelper", "addSSHKey", "deleteSSHKey"}

\* the handler did what it is for: disableWebauthn answered with success,
\* the others forwarded the request to the backend
EffectPerformed(l) ==
    IF l.handler = "disableWebauthn"
    THEN l.status = StatusOK /\ l.written = "redirectTo"
    ELSE l.forwarded

\* C20 (as stated): every secured handler, disableWebauthn included,
\* performs its effect without a ceremony (no session is loaded, no
\* assertion verified) when the principal the backend names for the session
\* has no enabled credential record.
C20_NotEnabledEffectWithoutCeremony ==
    [][ ( /\ Handled
          /\ last'.handler \in SecuredHandlers
          /\ last'.who # 0
          /\ last'.fault = "none"
          /\ ~IsUserEnabled(store, QueryByUserID(last'.who)) )
        => ( /\ EffectPerformed(last')
             /\ "GetWebauthnSession" \notin last'.calls
             /\ "FinishLogin" \notin last'.calls )
      ]_vars

----------------------------------------------------------------------------
(* C21 *)

\* the finish requests of the secured handlers: handler, form and route
\* variables, each with an assertion
FinishRequests ==
    {[handler |-> "disableWebauthn", vars |-> <<>>,
      body |-> << <<"assertion", AssertionBlob(1, "k1", "dis1")>> >>]}
    \cup {[handler |-> "repoSettings", vars |-> [username |-> "alice", reponame |-> repo],
           body |-> << <<"action", "delete">>,
                       <<"assertion", AssertionBlob(1, "k1", "r1")>> >>] :
            repo \in RepoNames}
    \cup {[handler |-> "addSSHKey", vars |-> <<>>,
           body |-> << <<"title", "work">>,
                       <<"assertion", AssertionBlob(1, "k1", "addkey")>> >>]}
    \cup {[handler |-> "deleteSSHKey", vars |-> <<>>,
           body |-> << <<"id", id>>,
                       <<"assertion", AssertionBlob(1, "k1", "delkey")>> >>] :
            id \in {"1", "2"}}

\* the answer to a finish request that arrives now, when the backend names
\* who as the user of the request's session
Answer(req, browser, who) ==
    CASE req.handler = "disableWebauthn" ->
            disableWebauthn(browser, req.body, who, FALSE).last
      [] req.handler = "repoSettings" ->
            repoSettings(browser, req.body, req.vars, who, FALSE, FALSE).last
      [] req.handler = "addSSHKey" ->
            addSSHKey(browser, req.body, who, FALSE, FALSE).last
      [] req.handler = "deleteSSHKey" ->
            deleteSSHKey(browser, req.body, who, FALSE, FALSE).last

\* C21 (as stated): the expected transaction extension of a finish request
\* is a function of the request's route variables and form fields only: a
\* request with the same route variables and form fields gets the same
\* expected map whatever the backend answers about the session and whatever
\* the credential store holds.
C21_ExpectedFromRequestOnly ==
    last.handler = "none" =>
        \A req \in FinishRequests, b \in Browsers, who1 \in UserIDs, who2 \in UserIDs :
            LET l1 == Answer(req, b, who1)
                l2 == Answer(req, b, who2)
            IN  (l1.checked # "none" /\ l2.checked # "none")
                    => l1.expected = l2.expected

----------------------------------------------------------------------------
(* C22 *)

\* the action a finish request asks for: its kind and identifying parameters
ActionOf(req) ==
    CASE req.handler = "disableWebauthn" -> <<"disable">>
      [] req.handler = "repoSettings" ->
            <<"repository delete", req.vars.username, req.vars.reponame>>
      [] req.handler = "addSSHKey" -> <<"add SSH key", BodyField(req.body, "title")>>
      [] req.handler = "deleteSSHKey" -> <<"delete SSH key", BodyField(req.body, "id")>>

\* C22 (as stated): two finish requests get the same expected extension map
\* exactly when they ask for the same action: always the same map for the
\* same kind and identifying parameters, never the same map for different
\* kinds or for different parameters of one kind.
C22_SameExpectedIffSameAction ==
    last.handler = "none" =>
        \A req1 \in FinishRequests, req2 \in FinishRequests, b \in Browsers,
           who1 \in UserIDs, who2 \in UserIDs :
            LET l1 == Answer(req1, b, who1)
                l2 == Answer(req2, b, who2)
            IN  (l1.checked # "none" /\ l2.checked # "none")
                    => ((l1.expected = l2.expected) <=> (ActionOf(req1) = ActionOf(req2)))

----------------------------------------------------------------------------
(* C23 *)

\* this step is the call of the accessor of that source and variant with args
AccessorStep(source, int64, withErr, args) ==
    /\ xr.built
    /\ xr.n < MaxAccessorCalls
    /\ xr' = Called(source,
                    IF withErr THEN Accessor_WithErr(xr.er, source, int64, args)
                    ELSE Accessor(xr.er, source, int64, args), withErr)

\* C23 (as stated): a route-variable lookup (GetURLInput and its wrappers)
\* for a name that is not among the request's route variables is an error:
\* the call returns a non-nil error and the request's error slot is set.
C23_UnknownRouteVariableIsError ==
    [][ \A int64 \in BOOLEAN, withErr \in BOOLEAN, name \in {"id", "name"} :
          ( /\ AccessorStep("URL", int64, withErr, <<name>>)
            /\ xr.er.err = NoErr
            /\ name \notin DOMAIN xr.er.Request.Vars )
          => ( /\ xr'.er.err # NoErr
               /\ withErr => xr'.ret.err # NoErr )
      ]_vars

----------------------------------------------------------------------------
(* C24 *)

\* this step is a call of GetContext_WithErr or of GetContext
ContextStep(contextName, withErr, args) ==
    /\ xr.built
    /\ xr.n < MaxAccessorCalls
    /\ xr' = Called("Context",
                    IF withErr THEN GetContext_WithErr(xr.er, contextName, args)
                    ELSE GetContext(xr.er, contextName, args), withErr)

\* C24: GetContext_WithErr with a name that has no entry in the table of
\* context getters returns a nil value with a non-nil error made by this
\* call, calls no resolver and leaves that error in the request's error
\* slot; GetContext returns the nil value in the same case.
C24_UnregisteredContextIsError ==
    [][ \A withErr \in BOOLEAN, contextName \in ContextNames, args \in {<<>>, <<"a">>} :
          ( /\ ContextStep(contextName, withErr, args)
            /\ contextName \notin DOMAIN xr.er.contextGetters )
          => ( /\ xr'.ret.str = ""
               /\ ~xr'.worked
               /\ xr'.er.err = NewErr("Context type does not have getter function",
                                      xr.er.made + 1)
               /\ xr'.er.err # xr.er.err
               /\ withErr => xr'.ret.err = xr'.er.err )
      ]_vars

\* GetContext_WithErr has just failed for an unregistered name
C24_Witness ==
    /\ xr.built
    /\ xr.called = "Context"
    /\ xr.withErr
    /\ ~xr.worked
    /\ xr.ret.str = ""
    /\ xr.ret.err.text = "Context type does not have getter function"
    /\ xr.er.err = xr.ret.err

----------------------------------------------------------------------------
(* C25 *)

\* this step is a call of the default accessor of a JSON route that reaches
\* the decoder: the slot is clean and there is a key path
JSONDecodingStep(int64, withErr, args) ==
    /\ AccessorStep("Default", int64, withErr, args)
    /\ xr.er.getInputDefault = "GetJSONInput"
    /\ xr.er.err = NoErr
    /\ Len(args) >= 1

\* C25 (as stated): after a GetJSONInput call that decoded the request body
\* returns, with a value or with an error, the body holds the captured bytes
\* again, so that the next reader sees the original body.
C25_BodyRestoredAfterDecode ==
    [][ \A int64 \in BOOLEAN, withErr \in BOOLEAN, args \in ArgLists :
          JSONDecodingStep(int64, withErr, args)
              => xr'.er.Request.Body = xr'.er.data
      ]_vars

----------------------------------------------------------------------------
(* C26 *)

HasMember(v, key) == v.t = "object" /\ \E i \in DOMAIN v.o : v.o[i][1] = key

\* the value at the end of a key path in a JSON document, if every key of
\* the path is a member of an object
RECURSIVE AtPath(_, _)
AtPath(v, path) ==
    IF path = <<>> THEN [found |-> TRUE, value |-> v]
    ELSE IF ~HasMember(v, Head(path)) THEN [found |-> FALSE, value |-> JNull]
    ELSE AtPath(Member(v, Head(path)), Tail(path))

\* C26: on a JSON body, GetJSONInput with a key path of at least one key
\* returns the string at the end of the path as it is and the number at the
\* end of the path as its token text; it returns an error (and no value) when
\* a value before the end of the path is not an object, when a key is
\* absent, or when the value at the end is neither a string nor a number;
\* with an empty path it returns an error.
C26_JSONPathLookup ==
    [][ \A withErr \in BOOLEAN, args \in ArgLists :
          ( /\ AccessorStep("Default", FALSE, withErr, args)
            /\ xr.er.getInputDefault = "GetJSONInput"
            /\ xr.er.err = NoErr
            /\ xr.er.Request.Body # <<>> )
          => LET at == AtPath(xr.er.Request.Body[1], args)
                 leaf == Len(args) >= 1 /\ at.found
                             /\ at.value.t \in {"string", "number"}
             IN  /\ leaf => /\ xr'.ret.str = at.value.s
                            /\ xr'.er.err = NoErr
                 /\ ~leaf => /\ xr'.ret.str = ""
                             /\ xr'.er.err # NoErr
                             /\ withErr => xr'.ret.err = xr'.er.err
      ]_vars

\* a number with a fraction was looked up and returned as its token
C26_Witness ==
    /\ xr.built
    /\ xr.called = "Default"
    /\ xr.er.getInputDefault = "GetJSONInput"
    /\ xr.ret.str = "1.50"
    /\ xr.er.err = NoErr

----------------------------------------------------------------------------
(* C27 *)

\* the last forward went through the reverse proxy of a configured host
ProxiedResponse ==
    /\ fw.built
    /\ fw.served
    /\ fw.host \in DOMAIN fw.ReverseProxyTargetMap

\* the status and the body delivered are the backend's
StatusAndBodyKept ==
    /\ fw.w.status = fw.response.StatusCode
    /\ fw.w.body = fw.response.Body

----------------------------------------------------------------------------
(* C28 *)

\* the form field action of a body
ActionField(body) == FormValue(ParseForm(NewRequest("b1", body, <<>>)), "action")

\* a request to the repository settings route is handled, its body read
\* without failure
RepoSettingsStep ==
    /\ Handled
    /\ last'.handler \in {"repoSettings", "deleteRepositoryHelper"}
    /\ last'.fault # "read"

\* the step is what deleteRepositoryHelper does with the request, its body
\* refilled, for some repository of the route
DelegatedToHelper ==
    \E repo \in RepoNames :
        LET l0 == [Start("repoSettings", last'.browser, last'.body, last'.who)
                      EXCEPT !.fault = last'.fault]
            nr == NewRequestRefiller(
                      NewRequest(last'.browser, last'.body,
                                 [username |-> "alice", reponame |-> repo]), FALSE)
            r2 == Refill(nr.refill, ParseForm(nr.request))
        IN  Apply(deleteRepositoryHelper(l0, r2, last'.who, last'.fault = "db"))

\* C28: repoSettings dispatches on the form field action: a missing or empty
\* action rejects the request without forwarding; "delete" delegates to
\* deleteRepositoryHelper, which forwards for an enabled user only after a
\* successful check; every other value forwards the request to the backend
\* with no ceremony check at all
C28_RepoSettingsDispatch ==
    [][RepoSettingsStep =>
        LET action == ActionField(last'.body)
        IN  /\ action = "" =>
                /\ last'.handler = "repoSettings"
                /\ last'.status = StatusInternalServerError
                /\ ~last'.forwarded
                /\ last'.calls = {}
                /\ UNCHANGED <<store, sessions, issued>>
            /\ action = "delete" =>
                /\ last'.handler = "deleteRepositoryHelper"
                /\ DelegatedToHelper
                /\ (last'.forwarded /\ IsUserEnabled(store, QueryByUserID(last'.who)))
                       => last'.checked = "ok"
            /\ action \notin {"", "delete"} =>
                /\ last'.handler = "repoSettings"
                /\ last'.forwarded
                /\ last'.fwdBody = last'.body
                /\ last'.status = 0
                /\ last'.calls = {"backend"}
                /\ last'.checked = "none"
                /\ last'.loaded = 0
                /\ UNCHANGED <<store, sessions, issued>>]_vars

\* an enabled user's request with another action than delete, carrying an
\* assertion while a ceremony of the browser is pending, has been forwarded
C28_Witness ==
    /\ last.handler = "repoSettings"
    /\ ActionField(last.body) = "mirror"
    /\ last.forwarded
    /\ last.who # 0
    /\ IsUserEnabled(store, QueryByUserID(last.who))
    /\ FormValue(ParseForm(NewRequest("b1", last.body, <<>>)), "assertion") # ""
    /\ sessions[last.browser]["authentication"] # NoSessionData

----------------------------------------------------------------------------
(* C29 *)

\* a verifier that accepts every pair of extension maps
NoVerify == [x \in ExtensionMaps \X ExtensionMaps |-> TRUE]

\* finishLogin handles a request of an enabled user, without a fault, whose
\* assertion the primitive verifies against the browser's stored challenge
\* when the extensions are left out of account
VerifiedLoginStep ==
    /\ Handled
    /\ last'.handler = "finishLogin"
    /\ last'.fault = "none"
    /\ LET r == ParseForm(NewRequest(last'.browser, last'.body, <<>>))
           query == QueryByUsername(FormValue(r, "user_name"))
           got == GetWebauthnUser(store, query)
           ld == GetWebauthnSession(sessions, "authentication", last'.browser)
       IN  /\ FormValue(r, "user_name") # ""
           /\ IsUserEnabled(store, query)
           /\ ~got.err
           /\ ~ld.err
           /\ ~FinishLogin(got.user, ld.sessionData, NoVerify,
                           FormValue(r, "assertion"))

\* C29: finishLogin for an enabled user has no extensions to verify: an
\* assertion that the primitive verifies against the stored challenge is
\* accepted and the request forwarded, whatever extension map (absent, empty
\* or non-empty) the client echoes
C29_LoginAcceptedWhateverExtensions ==
    [][VerifiedLoginStep =>
        /\ last'.checked = "ok"
        /\ last'.forwarded]_vars

----------------------------------------------------------------------------
(* C30 *)

\* the form, route-variable and default accessors
StringSources == {"Form", "URL", "Default"}

\* what the getter of the source answers when it is called on the request
GetterAnswer(source, args) ==
    CallGetter(GetterOf(xr.er, source), [xr.er EXCEPT !.work = @ + 1], args)

\* C30: for the form, route-variable and default getters (string and Int64
\* variants, with and without returned error): when the error slot is set at
\* call time the underlying getter is not invoked, the slot (and the request)
\* is left unchanged and the call returns the slot's error, the value-only
\* variants "" or 0; on a clean slot a getter failure or an Int64 parse
\* failure stores that error in the slot
C30_SetSlotShortCircuits ==
    [][\A source \in StringSources, int64 \in BOOLEAN, withErr \in BOOLEAN,
          args \in ArgLists :
        AccessorStep(source, int64, withErr, args) =>
            /\ xr.er.err # NoErr =>
                /\ xr'.er = xr.er
                /\ ~xr'.worked
                /\ xr'.ret.str = ""
                /\ xr'.ret.int = 0
                /\ xr'.ret.err = IF withErr THEN xr.er.err ELSE NoErr
            /\ xr.er.err = NoErr =>
                LET g == GetterAnswer(source, args)
                IN  /\ xr'.worked
                    /\ g.err # "" =>
                        /\ xr'.er.err # NoErr
                        /\ xr'.er.err.text = g.err
                        /\ withErr => xr'.ret.err = xr'.er.err
                    /\ (g.err = "" /\ int64 /\ ParseInt(g.val).err) =>
                        /\ xr'.er.err # NoErr
                        /\ xr'.er.err.text = "invalid syntax"
                        /\ withErr => xr'.ret.err = xr'.er.err
                    /\ (g.err = "" /\ ~(int64 /\ ParseInt(g.val).err)) =>
                        xr'.er.err = NoErr]_vars

\* an accessor that returns the error was called with the slot already set: it
\* returned the slot's error and the getter did no work
C30_Witness ==
    /\ xr.built
    /\ xr.called \in StringSources
    /\ xr.stuck
    /\ xr.withErr
    /\ xr.ret.err = xr.er.err
    /\ xr.er.err # NoErr
    /\ ~xr.worked

----------------------------------------------------------------------------
(* C31 *)

\* the rows the step takes out of the credential store
DeletedRows == store \ store'

\* C31: a credential record is deleted only inside a disableWebauthn request
\* in which checkWebauthnAssertion succeeded with the expected extension
\* "Confirm disable webauthn for <name>" for the principal userIDFromSession
\* names, and the record deleted is that same principal's; on every rejected
\* disable request the credential store is unchanged
C31_DeleteOnlyOwnRecordAfterCheck ==
    [][/\ DeletedRows # {} =>
            /\ Handled
            /\ last'.handler = "disableWebauthn"
            /\ last'.who # 0
            /\ last'.checked = "ok"
            /\ last'.expected = TxExt(DisableText(DisabledUser(last')))
            /\ ParseAssertion(last'.assertion).extensions = last'.expected
            /\ \A row \in DeletedRows : row.id = last'.who
       /\ (Handled /\ last'.handler = "disableWebauthn" /\ last'.status # StatusOK)
            => store' = store]_vars

----------------------------------------------------------------------------
(* A gated request whose steps interleave with other requests *)

\* the gated request (addSSHKey of a logged-in user) has asked the store
\* whether its principal is enabled and holds the answer
GatedIsUserEnabled ==
    /\ gated.pc = "none"
    /\ \E who \in UserIDs,
          a \in {""} \cup {AssertionBlob(c, "k1", "addkey") : c \in Challenges} :
        gated' = [pc |-> "tested", browser |-> "b1",
                  body |-> Fields(<< <<"title", "work">>, <<"assertion", a>> >>),
                  who |-> who,
                  isEnabled |-> IsUserEnabled(store, QueryByUserID(who)),
                  l |-> Idle]
    /\ UNCHANGED <<store, sessions, issued, last, rf, xr, fw, router, jwt>>

\* it goes on from the answer it holds: the check, or the forward at once
GatedProceeds ==
    /\ gated.pc = "tested"
    /\ LET out == addSSHKey_AfterIsUserEnabled(gated.browser, gated.body, gated.who,
                                               FALSE, FALSE, gated.isEnabled)
       IN  /\ gated' = [gated EXCEPT !.pc = "done", !.l = out.last]
           /\ store' = out.store
           /\ sessions' = out.sessions
           /\ issued' = out.issued
    /\ UNCHANGED <<last, rf, xr, fw, router, jwt>>

\* its response goes back to the client
GatedResponseSent ==
    /\ gated.pc = "done"
    /\ gated' = IdleGated
    /\ UNCHANGED <<store, sessions, issued, last, rf, xr, fw, router, jwt>>

\* the registration, login-begin and disable requests run, each in one piece,
\* between the steps of the gated request
NextInterleaved ==
    \/ BeginRegisterReq
    \/ FinishRegisterReq
    \/ BeginLoginReq
    \/ DisableWebauthnReq
    \/ ResponseSent
    \/ GatedIsUserEnabled
    \/ GatedProceeds
    \/ GatedResponseSent

SpecInterleaved == Init /\ [][NextInterleaved]_vars

----------------------------------------------------------------------------
(* C32 *)

\* the gated request is forwarded in this step without a verified assertion
ForwardedUnverified ==
    /\ gated.pc = "tested"
    /\ gated'.pc = "done"
    /\ gated'.l.forwarded
    /\ gated'.l.checked # "ok"

\* C32: in every interleaving of a gated request with concurrent
\* finishRegister and disableWebauthn requests for the same principal, the
\* gated request is forwarded to the backend without assertion verification
\* only if the principal has no enabled credential record at the moment the
\* request is forwarded
C32_UnverifiedForwardOnlyWhileNotEnabled ==
    [][ForwardedUnverified =>
        ~IsUserEnabled(store', QueryByUserID(gated.who))]_vars

----------------------------------------------------------------------------
(* C33 *)

\* the kind of session each begin handler saves
BegunKind(handler) ==
    IF handler = "beginRegister" THEN "registration" ELSE "authentication"

\* a begin request is handled
BeginStep ==
    Handled /\ last'.handler \in {"beginRegister", "beginLogin", "beginAttestation"}

\* the session of the options the step sent is in the store after the step
SessionPersisted ==
    LET s == sessions'[last'.browser][BegunKind(last'.handler)]
    IN  /\ s.present
        /\ s.challenge = last'.options.challenge

\* C33: beginRegister and beginAttestation_base send ceremony options to the
\* client (200 with the options payload) only after the ceremony session has
\* been persisted in that request; when persisting the session fails the
\* response is an error and carries no options payload, so a client never
\* holds options for which no session was stored
C33_OptionsOnlyAfterSessionSaved ==
    [][BeginStep =>
        /\ last'.written = "options" =>
            /\ last'.status = StatusOK
            /\ last'.fault = "none"
            /\ "SaveWebauthnSession" \in last'.calls
            /\ SessionPersisted
        /\ (last'.fault = "save" /\ "SaveWebauthnSession" \in last'.calls) =>
            /\ last'.status = StatusInternalServerError
            /\ last'.written = "error"
            /\ last'.options = NoOptions
            /\ sessions' = sessions
        /\ issued' # issued =>
            /\ last'.written = "options"
            /\ issued' = Append(issued, [kind |-> BegunKind(last'.handler),
                                         browser |-> last'.browser,
                                         options |-> last'.options, finished |-> 0])
            /\ SessionPersisted]_vars

\* saving the session of a registration ceremony has failed: the response is
\* an error without options
C33_Witness ==
    /\ last.handler = "beginRegister"
    /\ last.fault = "save"
    /\ "SaveWebauthnSession" \in last.calls
    /\ last.status = StatusInternalServerError
    /\ last.options = NoOptions

----------------------------------------------------------------------------
(* C34 *)

\* the challenge of the assertion a request presents (0: none)
PresentedChallenge(l) == ParseAssertion(BodyField(l.body, "assertion")).challenge

\* the request presents an assertion made for an authentication ceremony of
\* its browser that a later begin of that browser has replaced
PresentsReplacedChallenge ==
    LET c == PresentedChallenge(last')
    IN  /\ Handled
        /\ last'.handler \in GatedHandlers \cup {"disableWebauthn"}
        /\ c \in DOMAIN issued
        /\ issued[c].kind = "authentication"
        /\ issued[c].browser = last'.browser
        /\ c < LastBegun(issued, last'.browser, "authentication")

\* a begin of an authentication ceremony leaves its own session as the one
\* pending session of the browser
BeginReplaces ==
    (Handled /\ last'.handler \in BeginHandlers /\ last'.written = "options") =>
        /\ sessions'[last'.browser]["authentication"].challenge = last'.options.challenge
        /\ last'.options.challenge = LastBegun(issued', last'.browser, "authentication")

\* C34: per browser session there is at most one pending "authentication"
\* session: a second begin (beginLogin or beginAttestation, for any
\* transaction text) issued before the finish replaces the session of the
\* first, so a finish that presents an assertion made for the first begin's
\* challenge is rejected and only the latest begin can be finished
C34_OnlyLatestBeginFinishes ==
    [][/\ BeginReplaces
       /\ PresentsReplacedChallenge =>
            /\ last'.checked # "ok"
            /\ last'.written = "error"
            /\ ~last'.forwarded
       /\ (Handled /\ last'.checked = "ok") =>
            PresentedChallenge(last') = LastBegun(issued, last'.browser, "authentication")
      ]_vars

\* C34, amended: the same, for the finishes in which the assertion is
\* checked; a finish for a principal without credential record is forwarded
\* without a check whatever assertion it presents
C34_OnlyLatestBeginVerifies ==
    [][/\ BeginReplaces
       /\ (PresentsReplacedChallenge /\ last'.checked # "none") =>
            /\ last'.checked \in {"session", "verify", "user"}
            /\ last'.status = StatusBadRequest
            /\ ~last'.forwarded
            /\ store' = store
       /\ (Handled /\ last'.checked = "ok") =>
            PresentedChallenge(last') = LastBegun(issued, last'.browser, "authentication")
      ]_vars

\* an assertion for the first of two begun ceremonies of a browser is
\* presented while the second is pending, and is rejected by the check
C34_Witness ==
    /\ last.handler \in GatedHandlers
    /\ last.checked = "verify"
    /\ last.loaded = LastBegun(issued, last.browser, "authentication")
    /\ PresentedChallenge(last) \in DOMAIN issued
    /\ PresentedChallenge(last) < last.loaded
    /\ issued[PresentedChallenge(last)].kind = "authentication"
    /\ issued[PresentedChallenge(last)].browser = last.browser
    /\ ParseAssertion(last.assertion).extensions = last.expected
    /\ ParseAssertion(last.assertion).key = "k1"

----------------------------------------------------------------------------
(* C35 *)

\* the handlers whose principal comes from the request's cookies
SessionGated == {"deleteRepositoryHelper", "addSSHKey", "deleteSSHKey", "disableWebauthn"}

\* C35: in every gated handler the principal whose enabled status is tested
\* is the principal whose credential record verifies the assertion (the same
\* query goes to IsUserEnabled and to checkWebauthnAssertion), and in
\* deleteRepositoryHelper, addSSHKey, deleteSSHKey and disableWebauthn that
\* principal is the one userIDFromSession returns for the request's cookies,
\* never a value taken from a form field or route variable
C35_SamePrincipalTestedAndVerified ==
    /\ (last.handler \in GatedHandlers /\ last.verified # NoQuery) =>
            last.verified = last.tested
    /\ last.handler \in SessionGated =>
        /\ last.tested \in {NoQuery, QueryByUserID(last.who)}
        /\ last.verified \in {NoQuery, QueryByUserID(last.who)}
        /\ (last.tested # NoQuery \/ last.verified # NoQuery) => last.who # 0
    /\ (last.handler = "finishLogin" /\ last.tested # NoQuery) =>
            last.tested = QueryByUsername(BodyField(last.body, "user_name"))

\* a deleteSSHKey request of the session of user 2 whose check ran against
\* the record of user 2 although user 1, too, has a record
C35_Witness ==
    /\ last.handler = "deleteSSHKey"
    /\ last.who = 2
    /\ last.tested = QueryByUserID(2)
    /\ last.verified = QueryByUserID(2)
    /\ IsUserEnabled(store, QueryByUsername("alice"))
    /\ IsUserEnabled(store, QueryByUserID(1))

(***************************************************************************)
(* The route table and its dispatch.  main (main.go) registers ten secured *)
(* routes and then the pass-through; the library registers its seven core  *)
(* routes in NewWebauthnFirewall and the pass-through in ListenAndServeTLS.*)
(* A path is its sequence of segments ("/" is the empty sequence); a       *)
(* route is what mux keeps of a registration: a path template, whether it  *)
(* is a prefix, the methods, the handler.  mux tries the routes in         *)
(* registration order and dispatches to the first that matches.            *)
(***************************************************************************)

\* the requests served before the observation stops
MaxServed == 2

\* the template segments that are route variables, "{name}"
RouteVariables == {"{user}", "{username}", "{reponame}"}

\* router.HandleFunc(path, handler).Methods(methods...)
HandleFunc(path, handler, methods) ==
    [prefix |-> FALSE, path |-> path, handler |-> handler, methods |-> methods]

\* router.PathPrefix(path).HandlerFunc(handler).Methods(methods...)
PathPrefix(path, handler, methods) ==
    [prefix |-> TRUE, path |-> path, handler |-> handler, methods |-> methods]

\* wfirewall.Secure(method, path, handler): one method, one path template
Secure(method, path, handler) == HandleFunc(path, handler, {method})

\* the routes of main, in registration order, the pass-through first
MainRoutes_CatchAllFirst ==
    <<PathPrefix(<<>>, "proxyRequest", {"GET", "POST"}),
      HandleFunc(<<"webauthn", "is_enabled", "{user}">>, "webauthnIsEnabled", {"GET"}),
      HandleFunc(<<"webauthn", "begin_register">>, "beginRegister", {"POST"}),
      HandleFunc(<<"webauthn", "finish_register">>, "finishRegister", {"POST"}),
      HandleFunc(<<"webauthn", "begin_login">>, "beginLogin", {"POST"}),
      HandleFunc(<<"user", "login">>, "finishLogin", {"POST"}),
      HandleFunc(<<"webauthn", "begin_attestation">>, "beginAttestation", {"POST"}),
      HandleFunc(<<"webauthn", "disable">>, "disableWebauthn", {"POST"}),
      HandleFunc(<<"{username}", "{reponame}", "settings">>, "repoSettings", {"POST"}),
      HandleFunc(<<"user", "settings", "ssh">>, "addSSHKey", {"POST"}),
      HandleFunc(<<"user", "settings", "ssh", "delete">>, "deleteSSHKey", {"POST"})>>

\* the routes of main, in registration order
MainRoutes ==
    <<HandleFunc(<<"webauthn", "is_enabled", "{user}">>, "webauthnIsEnabled", {"GET"}),
      HandleFunc(<<"webauthn", "begin_register">>, "beginRegister", {"POST"}),
      HandleFunc(<<"webauthn", "finish_register">>, "finishRegister", {"POST"}),
      HandleFunc(<<"webauthn", "begin_login">>, "beginLogin", {"POST"}),
      HandleFunc(<<"user", "login">>, "finishLogin", {"POST"}),
      HandleFunc(<<"webauthn", "begin_attestation">>, "beginAttestation", {"POST"}),
      HandleFunc(<<"webauthn", "disable">>, "disableWebauthn", {"POST"}),
      HandleFunc(<<"{username}", "{reponame}", "settings">>, "repoSettings", {"POST"}),
      HandleFunc(<<"user", "settings", "ssh">>, "addSSHKey", {"POST"}),
      HandleFunc(<<"user", "settings", "ssh", "delete">>, "deleteSSHKey", {"POST"}),
      PathPrefix(<<>>, "proxyRequest", {"GET", "POST"})>>

\* the routes of the library, in registration order: the core routes of
\* NewWebauthnFirewall (WebauthnCorePrefix "/webauthn", LoginURL
\* "/user/login"), then the pass-through of ListenAndServeTLS
LibraryRoutes ==
    <<Secure("GET", <<"webauthn", "is_enabled", "{user}">>, "webauthnIsEnabled"),
      Secure("POST", <<"webauthn", "begin_register">>, "beginRegister"),
      Secure("POST", <<"webauthn", "finish_register">>, "finishRegister"),
      Secure("POST", <<"webauthn", "begin_login">>, "beginLogin"),
      Secure("POST", <<"user", "login">>, "finishLogin"),
      Secure("POST", <<"webauthn", "begin_attestation">>, "beginAttestation"),
      Secure("POST", <<"webauthn", "disable">>, "disableWebauthn"),
      PathPrefix(<<>>, "proxyRequest", {"OPTIONS", "GET", "POST", "PUT", "DELETE"})>>

Programs == {"main", "library"}

ProgramRoutes(program) == IF program = "main" THEN MainRoutes ELSE LibraryRoutes

\* a template segment matches a path segment: a variable matches any
\* non-empty segment, a literal matches itself
SegmentMatches(template, segment) ==
    IF template \in RouteVariables THEN segment # "" ELSE template = segment

\* the route's path template matches the path, whole or as a prefix
PathMatches(route, path) ==
    /\ IF route.prefix THEN Len(path) >= Len(route.path)
                       ELSE Len(path) = Len(route.path)
    /\ \A i \in 1..Len(route.path) : SegmentMatches(route.path[i], path[i])

\* mux Route.Match: every matcher of the route accepts the request
Route_Match(route, method, path) ==
    /\ PathMatches(route, path)
    /\ method \in route.methods

\* mux Router.Match / ServeHTTP: the first route, in registration order,
\* that matches; without one, 405 when some path matched and 404 otherwise
Router_Match(routes, method, path) ==
    LET hits == {i \in 1..Len(routes) : Route_Match(routes[i], method, path)}
    IN  IF hits # {}
        THEN routes[CHOOSE i \in hits : \A j \in hits : i <= j].handler
        ELSE IF \E i \in 1..Len(routes) : PathMatches(routes[i], path)
             THEN "methodNotAllowed"
             ELSE "notFound"

RequestMethods == {"GET", "POST", "PUT"}

RequestPaths ==
    {<<>>, <<"explore">>, <<"alice", "r1">>,
     <<"webauthn", "is_enabled", "alice">>, <<"webauthn", "begin_register">>,
     <<"webauthn", "finish_register">>, <<"webauthn", "begin_login">>,
     <<"user", "login">>, <<"webauthn", "begin_attestation">>,
     <<"webauthn", "disable">>, <<"webauthn", "disable", "x">>,
     <<"alice", "r1", "settings">>, <<"user", "settings", "settings">>,
     <<"user", "settings", "ssh">>, <<"user", "settings", "ssh", "delete">>,
     <<"user", "settings", "ssh", "delete", "x">>}

InitRouter ==
    /\ store = {}
    /\ sessions = [b \in Browsers |-> [k \in Kinds |-> NoSessionData]]
    /\ issued = <<>>
    /\ jwt = IdleJWT
    /\ gated = IdleGated
    /\ last = Idle
    /\ rf = IdleRefiller
    /\ xr = IdleAccessors
    /\ fw = IdleFirewall
    /\ \E program \in Programs : router = [IdleRouter EXCEPT !.program = program]

\* the program registers its next route
RegisterRoute ==
    /\ ~router.listening
    /\ Len(router.routes) < Len(ProgramRoutes(router.program))
    /\ router' = [router EXCEPT
           !.routes = Append(@, ProgramRoutes(router.program)[Len(@) + 1])]
    /\ UNCHANGED <<store, sessions, issued, last, rf, xr, fw, gated, jwt>>

\* http.ListenAndServe(TLS) with the router, every route registered
ListenAndServe ==
    /\ ~router.listening
    /\ Len(router.routes) = Len(ProgramRoutes(router.program))
    /\ router' = [router EXCEPT !.listening = TRUE]
    /\ UNCHANGED <<store, sessions, issued, last, rf, xr, fw, gated, jwt>>

\* the router serves one request: it dispatches it
RouterServeHTTP ==
    /\ router.listening
    /\ router.served < MaxServed
    /\ \E method \in RequestMethods, path \in RequestPaths :
        router' = [router EXCEPT
            !.served = @ + 1,
            !.dispatched = [method |-> method, path |-> path,
                            handler |-> Router_Match(router.routes, method, path)]]
    /\ UNCHANGED <<store, sessions, issued, last, rf, xr, fw, gated, jwt>>

NextRouter ==
    \/ RegisterRoute
    \/ ListenAndServe
    \/ RouterServeHTTP

SpecRouter == InitRouter /\ [][NextRouter]_vars

\* the secured routes of the table: every route but the pass-through
SecuredRoutes(routes) ==
    {i \in 1..Len(routes) : routes[i].handler # "proxyRequest"}

\* the secured routes that match the request dispatched last
MatchingSecured ==
    {i \in SecuredRoutes(router.routes) :
        Route_Match(router.routes[i], router.dispatched.method,
                    router.dispatched.path)}

\* C36: a served request whose method and path match a registered secured
\* route is dispatched to the handler of that route (and so not to the
\* pass-through), and a request dispatched to the pass-through matches no
\* secured route.
C36_SecuredRouteBeatsCatchAll ==
    router.dispatched.handler # "none" =>
        /\ \A i \in MatchingSecured :
               router.dispatched.handler = router.routes[i].handler
        /\ router.dispatched.handler = "proxyRequest" => MatchingSecured = {}

\* a POST to the repository settings page was dispatched to repoSettings,
\* with the pass-through (which also matches it) registered in the table
C36_Witness ==
    /\ router.program = "main"
    /\ router.dispatched.method = "POST"
    /\ router.dispatched.path = <<"alice", "r1", "settings">>
    /\ router.dispatched.handler = "repoSettings"
    /\ \E i \in 1..Len(router.routes) :
           /\ router.routes[i].handler = "proxyRequest"
           /\ Route_Match(router.routes[i], "POST", <<"alice", "r1", "settings">>)

(***************************************************************************)
(* userIDFromJWT (main.go 65-84).  An Authorization header value is a      *)
(* sequence of pieces: the space, or a run of non-space characters taken   *)
(* whole ("Bearer", a token).  A token is known by what jwt's              *)
(* ParseUnverified makes of it: its claims, or a parse error.              *)
(***************************************************************************)

\* the longest Authorization header value, in pieces
MaxHeaderLen == 3

Space == " "

\* well-formed tokens, by their id claim: a number, a string, none
Tokens == {"jwtIdNumber", "jwtIdString", "jwtNoId"}

HeaderPieces == {Space, "Bearer", "garbage"} \cup Tokens

HeaderValues == UNION {[1..n -> HeaderPieces] : n \in 0..MaxHeaderLen}

\* strings.Split(s, " "): the parts of s between the spaces, empty parts
\* included; a string without a space is its only part
RECURSIVE strings_Split(_)
strings_Split(s) ==
    IF \A i \in 1..Len(s) : s[i] # Space
    THEN <<s>>
    ELSE LET k == CHOOSE i \in 1..Len(s) :
                      s[i] = Space /\ \A j \in 1..(i - 1) : s[j] # Space
         IN  <<SubSeq(s, 1, k - 1)>> \o strings_Split(SubSeq(s, k + 1, Len(s)))

\* the "id" entry of the claims of a token: its dynamic type and value
IdClaim(token) ==
    CASE token = "jwtIdNumber" -> [type |-> "float64", value |-> 7]
      [] token = "jwtIdString" -> [type |-> "string", value |-> 0]
      [] OTHER                 -> [type |-> "nil", value |-> 0]

\* new(jwt.Parser).ParseUnverified(tokenString, jwt.MapClaims{}): an error
\* unless the string is one well-formed token
ParseUnverified(tokenString) ==
    IF Len(tokenString) = 1 /\ tokenString[1] \in Tokens
    THEN [err |-> FALSE, token |-> tokenString[1]]
    ELSE [err |-> TRUE, token |-> ""]

\* r.Header.Get("Authorization"): "" when the header is absent
Header_Get(r) == IF r.present THEN r.header ELSE <<>>

userIDFromJWT(r) ==
    LET authorizationString == Header_Get(r)
        parts == strings_Split(authorizationString)
    IN  IF Len(parts) < 2
        THEN \* parts[1] of the Go code: index out of range, a run-time panic
             [ended |-> "panic", userID |-> 0]
        ELSE LET parsed == ParseUnverified(parts[2])
             IN  IF parsed.err
                 THEN [ended |-> "error", userID |-> 0]
                 ELSE IF IdClaim(parsed.token).type # "float64"
                      THEN [ended |-> "error", userID |-> 0]
                      ELSE [ended |-> "value",
                            userID |-> IdClaim(parsed.token).value]

InitJWT ==
    /\ store = {}
    /\ sessions = [b \in Browsers |-> [k \in Kinds |-> NoSessionData]]
    /\ issued = <<>>
    /\ gated = IdleGated
    /\ last = Idle
    /\ rf = IdleRefiller
    /\ xr = IdleAccessors
    /\ fw = IdleFirewall
    /\ router = IdleRouter
    /\ \E present \in BOOLEAN, header \in HeaderValues :
        /\ ~present => header = <<>>
        /\ jwt = [IdleJWT EXCEPT !.present = present, !.header = header]

\* the function is called with the request
CallUserIDFromJWT ==
    /\ jwt.ended = "none"
    /\ jwt' = [jwt EXCEPT !.ended = userIDFromJWT(jwt).ended,
                          !.userID = userIDFromJWT(jwt).userID]
    /\ UNCHANGED <<store, sessions, issued, last, rf, xr, fw, gated, router>>

NextJWT == CallUserIDFromJWT

SpecJWT == InitJWT /\ [][NextJWT]_vars

\* the header is absent, empty, or holds no token part after a space
NoTokenPart(r) ==
    \/ ~r.present
    \/ r.header = <<>>
    \/ Len(strings_Split(r.header)) < 2
    \/ strings_Split(r.header)[2] = <<>>

\* the header's token part is a token whose id claim is missing or not a
\* number
BadIdClaim(r) ==
    /\ r.present
    /\ Len(strings_Split(r.header)) >= 2
    /\ ~ParseUnverified(strings_Split(r.header)[2]).err
    /\ IdClaim(ParseUnverified(strings_Split(r.header)[2]).token).type # "float64"

\* C37: a call of userIDFromJWT with a request whose Authorization header
\* is absent, empty or without a token part, or whose token has an id claim
\* that is missing or not a number, ends with a returned error, never with
\* a panic.
C37_BadAuthorizationReturnsError ==
    (jwt.ended # "none" /\ (NoTokenPart(jwt) \/ BadIdClaim(jwt)))
        => jwt.ended = "error"

====
